---- MODULE Spec2Model ----
(***************************************************************************)
(* netsuite-shim: the authenticated request pipeline of NetSuiteClient     *)
(* (client.py), its two signing strategies (auth/tba.py, auth/oauth2.py),  *)
(* the error classifier and the backoff calculator (_retry.py).            *)
(*                                                                         *)
(* A caller is one thread (blocking model) or one task (cooperative model) *)
(* that issues logical requests on the one client instance.  Times are     *)
(* whole seconds.  time.sleep(wait) is recorded by its duration; the clock *)
(* itself advances only by Tick, so a sleeping caller may be woken after   *)
(* any number of ticks (a superset of the real schedules).                 *)
(***************************************************************************)
EXTENDS Integers, Sequences, FiniteSets, TLC

\* ---------------------------------------------------------------- bounds
NumCallers == 2
MaxRetries == 2
MaxRequests == 2
MaxSoloRequests == 1
MaxTime == 60
TickStep == 30
MaxNow == 3
MaxAttempt == 4
MaxFetches == 3
MaxPageItems == 2
MaxLimit == 2
MaxStops == 2
MaxRaises == 1
MaxCloses == 2
MaxQuery == 2
MaxUrlLen == 3
MaxAcctLen == 2

Callers == 1..NumCallers

\* ------------------------------------------------------------- constants
SKEW == 60
DEFAULT_EXPIRES_IN == 3600
DEFAULT_BACKOFF_FACTOR == 1
DEFAULT_OFFSET == 0
DEFAULT_PAGE_SIZE == 1000

\* Optional values: None is the empty sequence, Some(x) the one-element one.
None == <<>>
Some(x) == <<x>>
IsSome(o) == o # None
Get(o) == o[1]

VARIABLES
  config,        \* NetSuiteConfig: max_retries, retry_backoff_factor, auth
  now,           \* time.time()
  access_token,  \* OAuth2Auth._access_token (None or Some(token id))
  expires_at,    \* OAuth2Auth._expires_at
  sync_lock,     \* OAuth2Auth._sync_lock: the set of its holders ({} or {c})
  async_lock,    \* OAuth2Auth._async_lock: [created, owner]
  issued,        \* number of tokens the token endpoint has issued
  nonces,        \* number of nonces secrets.token_hex has produced
  started,       \* number of logical requests started
  pc,            \* position of each caller
  mode,          \* "sync" (_request_sync) or "async" (_request_async)
  attempt,       \* the loop variable `attempt`
  response,      \* the local `response` (last API response received)
  exc,           \* the local `exc`
  last_exc,      \* the local `last_exc`
  result,        \* what the logical request returned or raised
  tok_resp,      \* the local `token_response` of the auth flow
  calls,         \* physical API calls issued in this logical request
  signs,         \* auth-flow invocations in this logical request
  waits,         \* durations passed to sleep in this logical request
  sent,          \* Authorization values of the requests sent, in order
  _sync_client,  \* NetSuiteClient._sync_client (None or Some(connection id))
  _async_client, \* NetSuiteClient._async_client (None or Some(connection id))
  closed,        \* the connections whose is_closed is true
  made,          \* the connections created, in order: which model, by whom
  conn,          \* the connection `self._sync` / `self._async` gave each caller
  close_calls,   \* the calls of close() and aclose(), in order
  script,        \* the server's answers to a caller's 1st, 2nd, ... call, if fixed
  build_in,      \* what NetSuiteConfig(...) was given: which credentials
  build_out,     \* how far construction got: config, client or error
  sign_in,       \* two requests given to TBAAuth.auth_flow on their own
  sign_out,      \* what auth_flow made of each (None before the call)
  url_in,        \* base_url and account_id of a configuration on their own
  url_out,       \* computed_base_url and _token_url of it (None before the call)
  valid_out,     \* what the last call of _is_token_valid returned (None: no call)
  backoff_in,    \* arguments of a call of calculate_backoff
  backoff_out,   \* what that call returned (None: not called yet)
  classify_in,   \* the response a call of _build_exception was given
  classify_out,  \* the error that call returned (None: not called yet)
  kind,          \* what consumes the pages: a page iterator or an item stream
  offset_arg,    \* the offset the iterator was created with (None: default)
  _limit,        \* the iterator's _limit
  _offset,       \* the iterator's _offset
  _exhausted,    \* the iterator's _exhausted
  fetching,      \* the iterator is inside a call of fetch_page
  next_id,       \* the server's count of items handed out
  requested,     \* the calls of fetch_page, in order
  fetched,       \* the pages fetch_page returned, in order
  yielded,       \* the pages __next__ / __anext__ returned, in order
  stops,         \* StopIteration / StopAsyncIteration signals of the iterator
  raised,        \* errors of fetch_page that __next__ let through
  gen_state,     \* the generator of iter_items: "running", "done", "failed"
  buffer,        \* items of the current page the generator has yet to yield
  items_out      \* the items the generator yielded, in order

vars == <<config, now, access_token, expires_at, sync_lock, async_lock, issued,
          nonces, started, pc, mode, attempt, response, exc, last_exc, result,
          tok_resp, calls, signs, waits, sent, _sync_client, _async_client,
          closed, made, conn, close_calls, script, build_in, build_out,
          sign_in, sign_out, url_in, url_out,
          valid_out, backoff_in,
          backoff_out, classify_in, classify_out, kind,
          offset_arg, _limit, _offset, _exhausted, fetching, next_id, requested,
          fetched, yielded, stops, raised, gen_state, buffer, items_out>>

cacheVars == <<access_token, expires_at>>
lockVars == <<sync_lock, async_lock>>
connVars == <<_sync_client, _async_client, closed, made, conn, close_calls>>
\* What the request pipeline never touches.
backoffVars == <<backoff_in, backoff_out>>
iterVars == <<kind, offset_arg, _limit, _offset, _exhausted>>
pageLog == <<fetching, next_id, requested, fetched, yielded, stops, raised>>
genVars == <<gen_state, buffer, items_out>>
pageVars == <<iterVars, pageLog, genVars>>
classifyVars == <<classify_in, classify_out>>
buildVars == <<build_in, build_out>>
signVars == <<sign_in, sign_out>>
urlVars == <<url_in, url_out>>
aux == <<valid_out, backoffVars, classifyVars, pageVars, script, buildVars,
         signVars, urlVars>>
\* The client, its auth object and its callers.
clientVars == <<config, now, cacheVars, lockVars, issued, nonces, started, pc,
                mode, attempt, response, exc, last_exc, result, tok_resp, calls,
                signs, waits, sent, connVars, script, buildVars>>

\* ------------------------------------------------------- backoff (_retry.py)
Pow2_flat(n) == 1

\* 2**attempt
RECURSIVE Pow2(_)
Pow2(n) == IF n <= 0 THEN 1 ELSE 2 * Pow2(n - 1)

calculate_backoff_max(a, retry_after, backoff_factor) ==
  IF retry_after # None /\ Get(retry_after) > backoff_factor * Pow2(a)
    THEN Get(retry_after) ELSE backoff_factor * Pow2(a)

\* A backoff that does not grow.
calculate_backoff_constant(a, retry_after, backoff_factor) ==
  IF retry_after # None THEN Get(retry_after) ELSE backoff_factor

calculate_backoff(a, retry_after, backoff_factor) ==
  IF retry_after # None THEN Get(retry_after) ELSE backoff_factor * Pow2(a)

\* float(raw) on the header texts the model draws: numeric text parses,
\* anything else raises ValueError.
FloatOf(raw) ==
  CASE raw = "0" -> Some(0)
    [] raw = "5" -> Some(5)
    [] raw = "7" -> Some(7)
    [] raw = "-5" -> Some(-5)
    [] OTHER -> None

parse_retry_after(r) ==
  IF r.retry_after = None THEN None ELSE FloatOf(Get(r.retry_after))

\* --------------------------------------------- error classifier (client.py)
NoBody == [title |-> "", status |-> 0, error_code |-> "", error_details |-> <<>>]

\* An HTTP response as the pipeline reads it: status_code, whether the body
\* is non-empty (content), whether response.json() and model_validate
\* succeed (json_ok), the parsed payload, and the raw Retry-After header.
Resp(s, c, j, b, h) ==
  [status |-> s, content |-> c, json_ok |-> j, body |-> b, retry_after |-> h]

NoResp == Resp(0, FALSE, FALSE, NoBody, None)

Msg(text, code) == [text |-> text, code |-> code]

\* An exception object: class, message, status, error_code, error_details,
\* retry_after (exceptions.py).
Exc(cls, msg, status, code, details, ra) ==
  [cls |-> cls, msg |-> msg, status |-> status, error_code |-> code,
   error_details |-> details, retry_after |-> ra]

NoExc == Exc("None", Msg("", 0), None, None, <<>>, None)

\* NetSuiteError("Max retries exceeded")
MaxRetriesExceeded ==
  Exc("NetSuiteError", Msg("Max retries exceeded", 0), None, None, <<>>, None)

\* Errors that are no NetSuiteError: raised by the transport, by json(), by
\* the lookup of access_token.
Foreign(cls) == Exc(cls, Msg(cls, 0), None, None, <<>>, None)

\* A NetSuiteErrorDetail, and what model_dump() makes of it.
Detail(detail, code, path) ==
  [detail |-> detail, error_code |-> code, error_path |-> path]
model_dump(d) ==
  [detail |-> d.detail, error_code |-> d.error_code, error_path |-> d.error_path]

STATUS_EXCEPTION_MAP_5xx(s) ==
  CASE s = 400 -> "ValidationError"
    [] s = 401 -> "AuthenticationError"
    [] s = 403 -> "AuthorizationError"
    [] s = 404 -> "NotFoundError"
    [] s = 429 -> "ConcurrencyLimitError"
    [] s >= 500 -> "ServerError"
    [] OTHER -> "NetSuiteError"

STATUS_EXCEPTION_MAP(s) ==
  CASE s = 400 -> "ValidationError"
    [] s = 401 -> "AuthenticationError"
    [] s = 403 -> "AuthorizationError"
    [] s = 404 -> "NotFoundError"
    [] s = 429 -> "ConcurrencyLimitError"
    [] s \in {500, 502, 503} -> "ServerError"
    [] OTHER -> "NetSuiteError"

_build_exception_by_status(r) ==
  LET exc_class == STATUS_EXCEPTION_MAP(r.status)
  IN Exc(exc_class,
         IF r.json_ok /\ r.body.title # "" THEN Msg(r.body.title, 0)
         ELSE Msg("HTTP", r.status),
         Some(r.status), None, <<>>, None)

_build_exception(r) ==
  IF ~r.json_ok
    THEN Exc("NetSuiteError", Msg("HTTP", r.status), Some(r.status), None, <<>>, None)
    ELSE LET exc_class == STATUS_EXCEPTION_MAP(r.status)
         IN Exc(exc_class,
                IF r.body.title # "" THEN Msg(r.body.title, 0) ELSE Msg("HTTP", r.status),
                Some(IF r.body.status # 0 THEN r.body.status ELSE r.status),
                Some(r.body.error_code),
                [i \in 1..Len(r.body.error_details) |->
                   model_dump(r.body.error_details[i])],
                IF exc_class = "ConcurrencyLimitError" THEN parse_retry_after(r) ELSE None)
\* A cache that never counts as valid.
_is_token_valid_never(tok, exp, t) == FALSE

\* ------------------------------------------------ token cache (oauth2.py)
_is_token_valid_le(tok, exp, t) == tok # None /\ t <= exp - SKEW

_is_token_valid(tok, exp, t) == tok # None /\ t < exp - SKEW

LockFree_never(m) == TRUE

\* threading.Lock / asyncio.Lock: free when nobody owns it.  The asyncio lock
\* is created by the first cooperative auth flow (oauth2.py:105-106).
LockFree(m) == IF m = "sync" THEN sync_lock = {} ELSE async_lock.owner = {}

Holds(c) == IF mode[c] = "sync" THEN c \in sync_lock ELSE c \in async_lock.owner

Acquire_skip(c) == UNCHANGED lockVars

Acquire(c) ==
  IF mode[c] = "sync"
    THEN sync_lock' = sync_lock \cup {c} /\ UNCHANGED async_lock
    ELSE async_lock' = [created |-> TRUE, owner |-> async_lock.owner \cup {c}]
         /\ UNCHANGED sync_lock

\* A lock that is never given back.
Release_never(c) == UNCHANGED lockVars

Release(c) ==
  IF mode[c] = "sync"
    THEN sync_lock' = sync_lock \ {c} /\ UNCHANGED async_lock
    ELSE async_lock' = [async_lock EXCEPT !.owner = @ \ {c}] /\ UNCHANGED sync_lock

\* `with lock:` entered and left with no suspension in between.
AcquireRelease(c) ==
  IF mode[c] = "sync"
    THEN UNCHANGED lockVars
    ELSE async_lock' = [async_lock EXCEPT !.created = TRUE] /\ UNCHANGED sync_lock

\* A token-endpoint response: its status (which the flow never reads),
\* whether the body carries access_token, and its expires_in (None when
\* absent).
TokResp(s, ok, ei) == [status |-> s, ok |-> ok, expires_in |-> ei]
NoTokResp == TokResp(0, FALSE, None)

\* An expiry that takes a missing expires_in as 0.
ExpiresIn_no_default(tr) ==
  IF tr.expires_in = None THEN 0 ELSE Get(tr.expires_in)

\* int(data.get("expires_in", 3600))
ExpiresIn(tr) ==
  IF tr.expires_in = None THEN DEFAULT_EXPIRES_IN ELSE Get(tr.expires_in)

\* ------------------------------------------------------ Authorization values
Hdr(scheme, token, nonce, ts, a) ==
  [scheme |-> scheme, token |-> token, nonce |-> nonce, timestamp |-> ts,
   made_in |-> a]

Last(q) == q[Len(q)]

\* ------------------------------------------------- request pipeline (client.py)
Return(v) == [kind |-> "return", value |-> v, exc |-> NoExc]
Raise(e) == [kind |-> "raise", value |-> "", exc |-> e]
NoResult == [kind |-> "none", value |-> "", exc |-> NoExc]
\* A loop that runs one attempt more than range(max_retries + 1).
AttemptRange_one_more(n) == 0..(n + 1)

\* range(self._config.max_retries + 1)
AttemptRange(n) == 0..n

SuccessResult_no_empty(r) ==
  IF r.status = 204 THEN Return("{}")
  ELSE IF r.json_ok THEN Return("body")
  ELSE Raise(Foreign("JSONDecodeError"))

\* client.py:111-114
SuccessResult(r) ==
  IF r.status = 204 \/ ~r.content THEN Return("{}")
  ELSE IF r.json_ok THEN Return("body")
  ELSE Raise(Foreign("JSONDecodeError"))
\* A 5xx that is waited on even after the last permitted attempt.
Retry5xx_always(r, a, n) == r.status >= 500

Retry429_any4xx(r, a, n) == r.status >= 400 /\ r.status < 500 /\ a < n

\* client.py:118 and client.py:127
Retry429(r, a, n) == r.status = 429 /\ a < n
Retry5xx(r, a, n) == r.status >= 500 /\ a < n

RaisedError_last(e, le) == IF le # NoExc THEN le ELSE e

\* client.py:135: the error raised when an attempt is not retried
RaisedError(e, le) == e

\* client.py:137
FallbackError(le) == IF le # NoExc THEN le ELSE MaxRetriesExceeded

\* ------------------------------------------ lazy connections (client.py)
\* A connection of execution model m, as the log of created connections keeps it.
Conn(m) == [mode |-> m]

ClientOf(m) == IF m = "sync" THEN _sync_client ELSE _async_client
\* A check of the attribute alone, blind to is_closed.
Unusable_none_only(cl) == cl = None

\* self._sync_client is None or self._sync_client.is_closed
Unusable(cl) == cl = None \/ Get(cl) \in closed

\* self._sync_client = httpx.Client(...) / self._async_client = httpx.AsyncClient(...)
NewClient(m, c) ==
  /\ made' = Append(made, Conn(m))
  /\ IF m = "sync"
       THEN _sync_client' = Some(Len(made) + 1) /\ UNCHANGED _async_client
       ELSE _async_client' = Some(Len(made) + 1) /\ UNCHANGED _sync_client

\* The head of attempt a of caller c in execution model m (client.py:107-108,
\* 151-152): past the last attempt the loop is left; otherwise the property
\* self._sync / self._async is read: an open connection is returned as it
\* is; with none the cooperative model creates and returns one in the same
\* step, the blocking model, whose threads can interleave here, goes on to
\* create one.
BeginAttempt(c, m, a) ==
  /\ IF a \notin AttemptRange(config.max_retries)
       THEN /\ pc' = [pc EXCEPT ![c] = "top"]
            /\ UNCHANGED <<_sync_client, _async_client, made, conn>>
       ELSE IF ~Unusable(ClientOf(m))
       THEN /\ conn' = [conn EXCEPT ![c] = Get(ClientOf(m))]
            /\ pc' = [pc EXCEPT ![c] = "loop"]
            /\ UNCHANGED <<_sync_client, _async_client, made>>
       ELSE IF m = "async"
       THEN /\ NewClient("async", c)
            /\ conn' = [conn EXCEPT ![c] = Len(made) + 1]
            /\ pc' = [pc EXCEPT ![c] = "loop"]
       ELSE /\ pc' = [pc EXCEPT ![c] = "creating"]
            /\ UNCHANGED <<_sync_client, _async_client, made, conn>>
  /\ UNCHANGED <<closed, close_calls>>

\* request() / arequest() is called (client.py:95-108, 139-152).
StartRequest(c, m) ==
  /\ pc[c] \in {"idle", "done"}
  /\ started < MaxRequests
  /\ started' = started + 1
  /\ BeginAttempt(c, m, 0)
  /\ mode' = [mode EXCEPT ![c] = m]
  /\ attempt' = [attempt EXCEPT ![c] = 0]
  /\ response' = [response EXCEPT ![c] = NoResp]
  /\ exc' = [exc EXCEPT ![c] = NoExc]
  /\ last_exc' = [last_exc EXCEPT ![c] = NoExc]
  /\ result' = [result EXCEPT ![c] = NoResult]
  /\ tok_resp' = [tok_resp EXCEPT ![c] = NoTokResp]
  /\ calls' = [calls EXCEPT ![c] = 0]
  /\ signs' = [signs EXCEPT ![c] = 0]
  /\ waits' = [waits EXCEPT ![c] = <<>>]
  /\ sent' = [sent EXCEPT ![c] = <<>>]
  /\ UNCHANGED aux
  /\ UNCHANGED <<config, now, cacheVars, lockVars, issued, nonces>>

\* The loop is over without a return or a raise (client.py:137).
LoopExit(c) ==
  /\ pc[c] = "top"
  /\ attempt[c] \notin AttemptRange(config.max_retries)
  /\ result' = [result EXCEPT ![c] = Raise(FallbackError(last_exc[c]))]
  /\ pc' = [pc EXCEPT ![c] = "done"]
  /\ UNCHANGED <<aux, connVars>>
  /\ UNCHANGED <<config, now, cacheVars, lockVars, issued, nonces, started, mode,
                 attempt, response, exc, last_exc, tok_resp, calls, signs, waits,
                 sent>>

\* client.py:72-77: the assignment of the new httpx.Client.
CreateClient(c) ==
  /\ pc[c] = "creating"
  /\ NewClient("sync", c)
  /\ pc' = [pc EXCEPT ![c] = "returning"]
  /\ UNCHANGED <<closed, conn, close_calls>>
  /\ UNCHANGED aux
  /\ UNCHANGED <<config, now, cacheVars, lockVars, issued, nonces, started, mode,
                 attempt, response, exc, last_exc, result, tok_resp, calls, signs,
                 waits, sent>>

\* client.py:78: return self._sync_client, read again after the assignment.
ReturnClient(c) ==
  /\ pc[c] = "returning"
  /\ conn' = [conn EXCEPT ![c] = Get(_sync_client)]
  /\ pc' = [pc EXCEPT ![c] = "loop"]
  /\ UNCHANGED <<_sync_client, _async_client, closed, made, close_calls>>
  /\ UNCHANGED aux
  /\ UNCHANGED <<config, now, cacheVars, lockVars, issued, nonces, started, mode,
                 attempt, response, exc, last_exc, result, tok_resp, calls, signs,
                 waits, sent>>

\* What close() and aclose() leave alone.
CloseFrame ==
  /\ UNCHANGED <<_sync_client, _async_client, made, conn>>
  /\ UNCHANGED aux
  /\ UNCHANGED <<config, now, cacheVars, lockVars, issued, nonces, started, pc,
                 mode, attempt, response, exc, last_exc, result, tok_resp, calls,
                 signs, waits, sent>>

\* The call self._sync.request(...) / self._async.request(...) of an attempt
\* is over (client.py:108-110, 152-154): the attempt no longer refers to the
\* connection the property gave it.
EndCall(c) ==
  /\ conn' = [conn EXCEPT ![c] = 0]
  /\ UNCHANGED <<_sync_client, _async_client, closed, made, close_calls>>

\* if cl and not cl.is_closed: cl.close()
CloseIfOpen(cl) == IF ~Unusable(cl) THEN closed \cup {Get(cl)} ELSE closed

\* A close() that closes whatever connection there is.
Close_both ==
  /\ Len(close_calls) < MaxCloses
  /\ close_calls' = Append(close_calls, "close")
  /\ closed' = CloseIfOpen(_sync_client) \cup CloseIfOpen(_async_client)
  /\ CloseFrame

\* close(), also __exit__: closes the blocking connection if one is open.
Close ==
  /\ Len(close_calls) < MaxCloses
  /\ close_calls' = Append(close_calls, "close")
  /\ closed' = CloseIfOpen(_sync_client)
  /\ CloseFrame

\* aclose(), also __aexit__: closes the cooperative connection if one is open.
\* It is a task of the event loop, which does not run between a cooperative
\* caller's reading of the property and the first suspension of its call.
AClose ==
  /\ Len(close_calls) < MaxCloses
  /\ \A c \in Callers :
       ~(/\ mode[c] = "async" /\ pc[c] = "loop"
         /\ config.auth = "tba" \/ LockFree("async"))
  /\ close_calls' = Append(close_calls, "aclose")
  /\ closed' = CloseIfOpen(_async_client)
  /\ CloseFrame

\* The connection was closed after the property returned it: httpx refuses
\* to send on a closed client and request() raises RuntimeError
\* (client.py:108, 152).
SendOnClosed(c) ==
  /\ pc[c] = "loop"
  /\ attempt[c] \in AttemptRange(config.max_retries)
  /\ conn[c] \in closed
  /\ result' = [result EXCEPT ![c] = Raise(Foreign("RuntimeError"))]
  /\ pc' = [pc EXCEPT ![c] = "done"]
  /\ EndCall(c)
  /\ UNCHANGED aux
  /\ UNCHANGED <<config, now, cacheVars, lockVars, issued, nonces, started, mode,
                 attempt, response, exc, last_exc, tok_resp, calls, signs, waits,
                 sent>>

\* A signature computed once and sent again on every retry.
auth_flow_replay(c) ==
  /\ pc[c] = "loop"
  /\ attempt[c] \in 0..config.max_retries
  /\ conn[c] \notin closed
  /\ config.auth = "tba"
  /\ nonces' = IF attempt[c] = 0 THEN nonces + 1 ELSE nonces
  /\ signs' = [signs EXCEPT ![c] = IF attempt[c] = 0 THEN @ + 1 ELSE @]
  /\ sent' = [sent EXCEPT ![c] =
                Append(@, IF attempt[c] = 0
                            THEN Hdr("OAuth", None, nonces + 1, now, attempt[c])
                            ELSE Last(@))]
  /\ calls' = [calls EXCEPT ![c] = @ + 1]
  /\ pc' = [pc EXCEPT ![c] = "inflight"]
  /\ UNCHANGED <<aux, connVars>>
  /\ UNCHANGED <<config, now, cacheVars, lockVars, issued, started, mode, attempt,
                 response, exc, last_exc, result, tok_resp, waits>>

\* TBAAuth.auth_flow: one attempt's request is signed and sent.
auth_flow(c) ==
  /\ pc[c] = "loop"
  /\ attempt[c] \in AttemptRange(config.max_retries)
  /\ conn[c] \notin closed
  /\ config.auth = "tba"
  /\ nonces' = nonces + 1
  /\ signs' = [signs EXCEPT ![c] = @ + 1]
  /\ sent' = [sent EXCEPT ![c] =
                Append(@, Hdr("OAuth", None, nonces + 1, now, attempt[c]))]
  /\ calls' = [calls EXCEPT ![c] = @ + 1]
  /\ pc' = [pc EXCEPT ![c] = "inflight"]
  /\ UNCHANGED <<aux, connVars>>
  /\ UNCHANGED <<config, now, cacheVars, lockVars, issued, started, mode, attempt,
                 response, exc, last_exc, result, tok_resp, waits>>

\* OAuth2Auth.sync_auth_flow / async_auth_flow up to the first suspension:
\* take the lock, check the cache; a valid token leaves the lock at once, an
\* invalid one yields the token request with the lock held.
AuthCheck(c) ==
  /\ pc[c] = "loop"
  /\ attempt[c] \in AttemptRange(config.max_retries)
  /\ conn[c] \notin closed
  /\ config.auth = "oauth2"
  /\ LockFree(mode[c])
  /\ signs' = [signs EXCEPT ![c] = @ + 1]
  /\ IF _is_token_valid(access_token, expires_at, now)
       THEN /\ AcquireRelease(c)
            /\ pc' = [pc EXCEPT ![c] = "attach"]
       ELSE /\ Acquire(c)
            /\ pc' = [pc EXCEPT ![c] = "token_inflight"]
  /\ UNCHANGED <<aux, connVars>>
  /\ UNCHANGED <<config, now, cacheVars, issued, nonces, started, mode, attempt,
                 response, exc, last_exc, result, tok_resp, calls, waits, sent>>

\* The token response comes back into the flow: read it, and _store_token's
\* first assignment (oauth2.py:93-95, 82-83).  A body without access_token
\* raises out of the flow; leaving `with` releases the lock.
TokenResponse(c, tr) ==
  /\ pc[c] = "token_inflight"
  /\ tok_resp' = [tok_resp EXCEPT ![c] = tr]
  /\ IF tr.ok
       THEN /\ issued' = issued + 1
            /\ access_token' = Some(issued + 1)
            /\ pc' = [pc EXCEPT ![c] = "store"]
            /\ UNCHANGED <<lockVars, result, connVars>>
       ELSE /\ Release(c)
            /\ result' = [result EXCEPT ![c] = Raise(Foreign("KeyError"))]
            /\ pc' = [pc EXCEPT ![c] = "done"]
            /\ EndCall(c)
            /\ UNCHANGED <<issued, access_token>>
  /\ UNCHANGED aux
  /\ UNCHANGED <<config, now, expires_at, nonces, started, mode, attempt, response,
                 exc, last_exc, calls, signs, waits, sent>>

\* _store_token's second assignment, then the end of the `with` block
\* (oauth2.py:84, 91).
StoreExpiry(c) ==
  /\ pc[c] = "store"
  /\ expires_at' = now + ExpiresIn(tok_resp[c])
  /\ Release(c)
  /\ pc' = [pc EXCEPT ![c] = "attach"]
  /\ UNCHANGED <<aux, connVars>>
  /\ UNCHANGED <<config, now, access_token, issued, nonces, started, mode, attempt,
                 response, exc, last_exc, result, tok_resp, calls, signs, waits,
                 sent>>
\* A failed transport that leaves the token lock taken.
TokenTransportError_holding(c) ==
  /\ pc[c] = "token_inflight"
  /\ result' = [result EXCEPT ![c] = Raise(Foreign("TransportError"))]
  /\ pc' = [pc EXCEPT ![c] = "done"]
  /\ EndCall(c)
  /\ UNCHANGED aux
  /\ UNCHANGED <<config, now, cacheVars, lockVars, issued, nonces, started, mode,
                 attempt, response, exc, last_exc, tok_resp, calls, signs, waits,
                 sent>>

\* The transport fails on the token request: httpx closes the flow, which
\* leaves the `with` block.
TokenTransportError(c) ==
  /\ pc[c] = "token_inflight"
  /\ Release(c)
  /\ result' = [result EXCEPT ![c] = Raise(Foreign("TransportError"))]
  /\ pc' = [pc EXCEPT ![c] = "done"]
  /\ EndCall(c)
  /\ UNCHANGED aux
  /\ UNCHANGED <<config, now, cacheVars, issued, nonces, started, mode, attempt,
                 response, exc, last_exc, tok_resp, calls, signs, waits, sent>>

\* oauth2.py:97-98 / 113-114: attach the bearer token, send the request; the
\* flow's local token_response is gone with it.
AttachBearer(c) ==
  /\ pc[c] = "attach"
  /\ sent' = [sent EXCEPT ![c] =
                Append(@, Hdr("Bearer", access_token, 0, 0, attempt[c]))]
  /\ calls' = [calls EXCEPT ![c] = @ + 1]
  /\ tok_resp' = [tok_resp EXCEPT ![c] = NoTokResp]
  /\ pc' = [pc EXCEPT ![c] = "inflight"]
  /\ UNCHANGED <<aux, connVars>>
  /\ UNCHANGED <<config, now, cacheVars, lockVars, issued, nonces, started, mode,
                 attempt, response, exc, last_exc, result, signs, waits>>

\* time.sleep(wait) / await asyncio.sleep(wait) (client.py:123, 131, 167,
\* 175): time.sleep raises ValueError for a negative length and the request
\* ends with it; asyncio.sleep returns at once for a delay <= 0.
Sleep(c, wait) ==
  IF mode[c] = "sync" /\ wait < 0
    THEN /\ result' = [result EXCEPT ![c] = Raise(Foreign("ValueError"))]
         /\ pc' = [pc EXCEPT ![c] = "done"]
         /\ UNCHANGED waits
    ELSE /\ waits' = [waits EXCEPT ![c] = Append(@, wait)]
         /\ pc' = [pc EXCEPT ![c] = "sleep"]
         /\ UNCHANGED result

\* The API response of one attempt and what the loop body does with it
\* (client.py:111-135).
Receive(c, r) ==
  /\ pc[c] = "inflight"
  /\ response' = [response EXCEPT ![c] = r]
  /\ IF r.status < 400
       THEN /\ result' = [result EXCEPT ![c] = SuccessResult(r)]
            /\ pc' = [pc EXCEPT ![c] = "done"]
            /\ UNCHANGED <<exc, waits>>
       ELSE /\ exc' = [exc EXCEPT ![c] = _build_exception(r)]
            /\ IF Retry429(r, attempt[c], config.max_retries)
                 THEN Sleep(c, calculate_backoff(attempt[c], parse_retry_after(r),
                                                 config.retry_backoff_factor))
                 ELSE IF Retry5xx(r, attempt[c], config.max_retries)
                 THEN Sleep(c, calculate_backoff(attempt[c], None,
                                                 config.retry_backoff_factor))
                 ELSE /\ result' = [result EXCEPT ![c] =
                            Raise(RaisedError(exc'[c], last_exc[c]))]
                      /\ pc' = [pc EXCEPT ![c] = "done"]
                      /\ UNCHANGED waits
  /\ EndCall(c)
  /\ UNCHANGED aux
  /\ UNCHANGED <<config, now, cacheVars, lockVars, issued, nonces, started, mode,
                 attempt, last_exc, tok_resp, calls, signs, sent>>
\* A transport failure that is waited on and tried again like a 5xx.
TransportError_retried(c) ==
  /\ pc[c] = "inflight"
  /\ exc' = [exc EXCEPT ![c] = Foreign("TransportError")]
  /\ IF attempt[c] < config.max_retries
       THEN /\ waits' = [waits EXCEPT ![c] = Append(@, 0)]
            /\ pc' = [pc EXCEPT ![c] = "sleep"]
            /\ UNCHANGED result
       ELSE /\ result' = [result EXCEPT ![c] = Raise(Foreign("TransportError"))]
            /\ pc' = [pc EXCEPT ![c] = "done"]
            /\ UNCHANGED waits
  /\ EndCall(c)
  /\ UNCHANGED aux
  /\ UNCHANGED <<config, now, cacheVars, lockVars, issued, nonces, started, mode,
                 attempt, response, last_exc, tok_resp, calls, signs, sent>>

\* The transport raises during the API call (timeout, connection failure).
TransportError(c) ==
  /\ pc[c] = "inflight"
  /\ result' = [result EXCEPT ![c] = Raise(Foreign("TransportError"))]
  /\ pc' = [pc EXCEPT ![c] = "done"]
  /\ EndCall(c)
  /\ UNCHANGED aux
  /\ UNCHANGED <<config, now, cacheVars, lockVars, issued, nonces, started, mode,
                 attempt, response, exc, last_exc, tok_resp, calls, signs, waits,
                 sent>>

\* The sleep is over: last_exc = exc; continue (client.py:123-125, 131-133),
\* and the next attempt begins.
Wake(c) ==
  /\ pc[c] = "sleep"
  /\ last_exc' = [last_exc EXCEPT ![c] = exc[c]]
  /\ attempt' = [attempt EXCEPT ![c] = @ + 1]
  /\ BeginAttempt(c, mode[c], attempt[c] + 1)
  /\ UNCHANGED aux
  /\ UNCHANGED <<config, now, cacheVars, lockVars, issued, nonces, started, mode,
                 response, exc, result, tok_resp, calls, signs, waits, sent>>

Tick ==
  /\ now + TickStep <= MaxTime
  /\ now' = now + TickStep
  /\ UNCHANGED <<aux, connVars>>
  /\ UNCHANGED <<config, cacheVars, lockVars, issued, nonces, started, pc, mode,
                 attempt, response, exc, last_exc, result, tok_resp, calls, signs,
                 waits, sent>>

\* ----------------------------------------------------------------- inputs
Factors == {0, 2}
Configs ==
  [max_retries : -1..MaxRetries, retry_backoff_factor : Factors,
   auth : {"tba", "oauth2"}]

RetryAfterHeaders == {None, Some("5"), Some("soon"), Some("-5")}
ErrBody == [title |-> "Error", status |-> 0, error_code |-> "", error_details |-> <<>>]

ApiResponses ==
  {Resp(200, TRUE, TRUE, NoBody, None), Resp(200, FALSE, FALSE, NoBody, None),
   Resp(200, TRUE, FALSE, NoBody, None), Resp(204, FALSE, FALSE, NoBody, None),
   Resp(302, FALSE, FALSE, NoBody, None)}
  \cup {Resp(429, TRUE, TRUE, ErrBody, h) : h \in RetryAfterHeaders}
  \cup {Resp(429, TRUE, FALSE, NoBody, Some("5"))}
  \cup {Resp(500, TRUE, TRUE, ErrBody, h) : h \in {None, Some("5")}}
  \cup {Resp(503, TRUE, FALSE, NoBody, None), Resp(504, TRUE, TRUE, ErrBody, None)}
  \cup {Resp(s, TRUE, TRUE, ErrBody, None) : s \in {400, 401, 403}}
  \cup {Resp(404, TRUE, j, IF j THEN ErrBody ELSE NoBody, None) : j \in BOOLEAN}

TokenResponses ==
  {TokResp(200, TRUE, e) : e \in {None, Some(30), Some(90)}}
  \cup {TokResp(200, FALSE, None), TokResp(401, FALSE, None)}

Api(c) == \E r \in ApiResponses : Receive(c, r)
Token(c) == \E tr \in TokenResponses : TokenResponse(c, tr)
Start(c) == \E m \in {"sync", "async"} : StartRequest(c, m)

\* ------------------------------------------ token-based signing (tba.py)
\* Text is kept as its parts: percent-encoding escapes the separators "&",
\* "=" and ",", so a joined string and the sequence of its parts determine
\* each other.
Request(method, path, query, body) ==
  [method |-> method, path |-> path, query |-> query, body |-> body]

\* The keys in the order sorted() gives them.
ParamOrder ==
  <<"k", "m", "oauth_consumer_key", "oauth_nonce", "oauth_signature",
    "oauth_signature_method", "oauth_timestamp", "oauth_token", "oauth_version">>

\* auth_flow: oauth_params for a nonce and a timestamp (tba.py:30-37).
oauth_params(nonce, timestamp) ==
  [k \in {"oauth_consumer_key", "oauth_nonce", "oauth_signature_method",
          "oauth_timestamp", "oauth_token", "oauth_version"} |->
     CASE k = "oauth_consumer_key" -> "ck"
       [] k = "oauth_nonce" -> nonce
       [] k = "oauth_signature_method" -> "HMAC-SHA256"
       [] k = "oauth_timestamp" -> timestamp
       [] k = "oauth_token" -> "tk"
       [] OTHER -> "1.0"]

\* all_params[key] = value
SetItem(d, k, v) == [x \in DOMAIN d \cup {k} |-> IF x = k THEN v ELSE d[x]]

\* for key, value in request.url.params.multi_items(): all_params[key] = value
RECURSIVE Merge(_, _)
Merge(d, q) ==
  IF q = <<>> THEN d ELSE Merge(SetItem(d, q[1][1], q[1][2]), Tail(q))

\* sorted(d.items())
sorted_items(d) ==
  LET ks == SelectSeq(ParamOrder, LAMBDA k : k \in DOMAIN d)
  IN  [i \in 1..Len(ks) |-> <<ks[i], d[ks[i]]>>]

\* The base string with the request body in it.
base_string_with_body(request, params) ==
  <<request.method, request.path, sorted_items(Merge(params, request.query)),
    request.body>>

\* _compute_signature: method, URL without query and fragment, and the
\* sorted merge of the OAuth and the query parameters.
base_string(request, params) ==
  <<request.method, request.path, sorted_items(Merge(params, request.query))>>

\* HMAC-SHA256 under the signing key, taken as free of collisions.
hmac(key, msg) == [key |-> key, msg |-> msg]

_compute_signature(request, params) ==
  hmac(<<"cs", "ts">>, base_string(request, params))

\* _build_header: the realm and the sorted OAuth parameters.
_build_header(realm, params) == [realm |-> realm, parts |-> sorted_items(params)]

\* TBAAuth.auth_flow for one request with nonce and timestamp given.
Signed(request, nonce, timestamp) ==
  LET params == oauth_params(nonce, timestamp)
      signature == _compute_signature(request, params)
  IN  [base |-> base_string(request, params),
       signature |-> signature,
       header |-> _build_header("acct",
                     SetItem(params, "oauth_signature", signature))]

\* ------------------------------------------------------- URLs (models.py)
\* str.rstrip("/")
RECURSIVE rstrip(_)
rstrip(u) ==
  IF u # <<>> /\ u[Len(u)] = "/" THEN rstrip(SubSeq(u, 1, Len(u) - 1)) ELSE u

\* A normalisation that leaves underscores alone.
normalise_lower_only(acct) ==
  [i \in DOMAIN acct |-> IF acct[i] = "A" THEN "a" ELSE acct[i]]

\* account_id.lower().replace("_", "-")
normalise(acct) ==
  [i \in DOMAIN acct |->
     IF acct[i] = "A" THEN "a" ELSE IF acct[i] = "_" THEN "-" ELSE acct[i]]

\* NetSuiteConfig.computed_base_url; an empty string is false in Python.
computed_base_url(base_url, account_id) ==
  IF base_url # None /\ Get(base_url) # <<>>
    THEN rstrip(Get(base_url))
    ELSE <<"https://">> \o normalise(account_id)
           \o <<".suitetalk.api.netsuite.com">>

\* OAuth2Auth._token_url
_token_url(account_id) ==
  <<"https://">> \o normalise(account_id) \o <<".suitetalk.api.netsuite.com">>
    \o <<"/services/rest/auth/oauth2/v1/token">>

\* ------------------------------------------------ construction (models.py)
BuildOut(stage, error, auth) == [stage |-> stage, error |-> error, auth |-> auth]
NotBuilt == BuildOut("none", "", "none")

\* A validator that only asks for some credentials.
_check_auth_lax(tba, oauth2) ==
  IF ~tba /\ ~oauth2 THEN "ValueError" ELSE ""

\* NetSuiteConfig._check_auth: the error raised, "" for none. pydantic
\* reports the ValueError as its ValidationError, itself a ValueError.
_check_auth(tba, oauth2) ==
  IF ~tba /\ ~oauth2 THEN "ValueError"
  ELSE IF tba /\ oauth2 THEN "ValueError"
  ELSE ""

\* NetSuiteClient._build_auth: the auth object built, or the error raised.
\* OAuth2Auth.__init__ reads the private key file (oauth2.py:32).
_build_auth(tba, oauth2, key_readable) ==
  IF tba THEN BuildOut("client", "", "tba")
  ELSE IF oauth2
  THEN IF key_readable THEN BuildOut("client", "", "oauth2")
       ELSE BuildOut("error", "OSError", "none")
  ELSE BuildOut("error", "ValueError", "none")

\* The client exists: construction as it went for the client of `config`.
Built ==
  /\ build_in = [tba |-> config.auth = "tba", oauth2 |-> config.auth = "oauth2",
                 key_readable |-> TRUE]
  /\ build_out = BuildOut("client", "", config.auth)

\* No call of auth_flow or of computed_base_url on its own.
NoSignCall == [a |-> Request("", "", <<>>, ""), b |-> Request("", "", <<>>, "")]
InitNoSign == sign_in = NoSignCall /\ sign_out = None
NoUrlCall == [base_url |-> None, account_id |-> <<>>]
InitNoUrl == url_in = NoUrlCall /\ url_out = None

\* NetSuiteClient.__init__: no connection yet.
InitConnections ==
  /\ _sync_client = None
  /\ _async_client = None
  /\ closed = {}
  /\ made = <<>>
  /\ conn = [c \in Callers |-> 0]
  /\ close_calls = <<>>

\* The client after a first blocking request that the transport failed on
\* the way to the token endpoint: the blocking connection is open, nothing
\* else has changed.
OpenBlocking ==
  /\ _sync_client = Some(1)
  /\ _async_client = None
  /\ closed = {}
  /\ made = <<Conn("sync")>>
  /\ conn = [c \in Callers |-> 0]
  /\ close_calls = <<>>

\* No caller is in a request.
InitRequests ==
  /\ started = 0
  /\ nonces = 0
  /\ pc = [c \in Callers |-> "idle"]
  /\ mode = [c \in Callers |-> "sync"]
  /\ attempt = [c \in Callers |-> 0]
  /\ response = [c \in Callers |-> NoResp]
  /\ exc = [c \in Callers |-> NoExc]
  /\ last_exc = [c \in Callers |-> NoExc]
  /\ result = [c \in Callers |-> NoResult]
  /\ tok_resp = [c \in Callers |-> NoTokResp]
  /\ calls = [c \in Callers |-> 0]
  /\ signs = [c \in Callers |-> 0]
  /\ waits = [c \in Callers |-> <<>>]
  /\ sent = [c \in Callers |-> <<>>]

\* No caller has issued a request yet.
InitCallers == InitRequests /\ InitConnections

\* No call of calculate_backoff on its own.
NoBackoffCall == [attempt |-> 0, retry_after |-> None, backoff_factor |-> None]
InitBackoff == backoff_in = NoBackoffCall /\ backoff_out = None

\* No call of _build_exception on its own.
InitClassify == classify_in = NoResp /\ classify_out = None

\* Nothing has been fetched, yielded or signalled.
InitPageLog ==
  /\ fetching = FALSE
  /\ next_id = 0
  /\ requested = <<>>
  /\ fetched = <<>>
  /\ yielded = <<>>
  /\ stops = 0
  /\ raised = 0
  /\ gen_state = "running"
  /\ buffer = <<>>
  /\ items_out = <<>>

\* No page iterator has been created.
InitNoIterator ==
  /\ kind = "none"
  /\ offset_arg = None
  /\ _limit = 0
  /\ _offset = 0
  /\ _exhausted = FALSE
  /\ InitPageLog

\* OAuth2Auth.__init__: the locks
InitLocks ==
  /\ sync_lock = {}
  /\ async_lock = [created |-> FALSE, owner |-> {}]
  /\ issued = 0

\* The client with its connections as `connections` says, no request under
\* way and an empty token cache.
InitWith(connections) ==
  /\ config \in Configs
  /\ now = 0
  /\ access_token = None
  /\ expires_at = 0
  /\ InitLocks
  /\ InitNoSign
  /\ InitNoUrl
  /\ InitRequests
  /\ connections
  /\ script = <<>>
  /\ Built
  /\ valid_out = None
  /\ InitBackoff
  /\ InitClassify
  /\ InitNoIterator

\* NetSuiteClient.__init__
Init == InitWith(InitConnections)

\* One caller at a time with every API response against a token endpoint
\* that issues a 90-second token, answers without one, or refuses: the
\* attempt loop in full.
CoarseTokenResponses ==
  {TokResp(200, TRUE, Some(90)), TokResp(200, FALSE, None), TokResp(401, FALSE, None)}

TokenCoarse(c) == \E tr \in CoarseTokenResponses : TokenResponse(c, tr)

Solo == {1}
SoloStart(c) == started < MaxSoloRequests /\ Start(c)

Next ==
  \/ \E c \in Solo : SoloStart(c)
  \/ \E c \in Solo : LoopExit(c)
  \/ \E c \in Solo : CreateClient(c)
  \/ \E c \in Solo : ReturnClient(c)
  \/ \E c \in Solo : auth_flow(c)
  \/ \E c \in Solo : AuthCheck(c)
  \/ \E c \in Solo : TokenCoarse(c)
  \/ \E c \in Solo : StoreExpiry(c)
  \/ \E c \in Solo : TokenTransportError(c)
  \/ \E c \in Solo : AttachBearer(c)
  \/ \E c \in Solo : Api(c)
  \/ \E c \in Solo : TransportError(c)
  \/ \E c \in Solo : Wake(c)
  \/ Tick

Spec == Init /\ [][Next]_vars

\* Concurrent callers of both execution models under the certificate flow,
\* without retries, the API answering 200 or 401, on a client whose blocking
\* connection is open already: the token cache and its locks under
\* contention (SpecConn has the connections under contention).
AuthConfigs ==
  [max_retries : {0}, retry_backoff_factor : {0}, auth : {"oauth2"}]

CoarseResponses ==
  {Resp(200, TRUE, TRUE, NoBody, None), Resp(401, TRUE, TRUE, ErrBody, None)}

ApiCoarse(c) == \E r \in CoarseResponses : Receive(c, r)

\* The steps of a request in progress: the statements of the loop, the end of
\* a physical call (an answer or a transport failure) and the end of a
\* backoff wait. A request in progress takes its next step; nothing obliges a
\* caller to start a request.
Progress(c) ==
  \/ LoopExit(c)
  \/ CreateClient(c)
  \/ ReturnClient(c)
  \/ auth_flow(c)
  \/ AuthCheck(c)
  \/ TokenCoarse(c)
  \/ StoreExpiry(c)
  \/ TokenTransportError(c)
  \/ AttachBearer(c)
  \/ Api(c)
  \/ TransportError(c)
  \/ Wake(c)

\* The clock stands still here: no step of the loop waits for it, and a
\* token is exchanged whenever the cache holds none.
NextLive ==
  \/ \E c \in Solo : SoloStart(c)
  \/ \E c \in Solo : Progress(c)

SpecLive == Init /\ [][NextLive]_vars /\ \A c \in Solo : WF_vars(Progress(c))

InitAuth == InitWith(OpenBlocking) /\ config \in AuthConfigs

NextAuth ==
  \/ \E c \in Callers : Start(c)
  \/ \E c \in Callers : AuthCheck(c)
  \/ \E c \in Callers : Token(c)
  \/ \E c \in Callers : StoreExpiry(c)
  \/ \E c \in Callers : TokenTransportError(c)
  \/ \E c \in Callers : AttachBearer(c)
  \/ \E c \in Callers : ApiCoarse(c)
  \/ Tick

SpecAuth == InitAuth /\ [][NextAuth]_vars

\* The callers of SpecAuth with one retry permitted: a failed token exchange
\* is met on an attempt that is not the last one.
RetryConfigs ==
  [max_retries : {1}, retry_backoff_factor : {0}, auth : {"oauth2"}]

InitRetry == InitWith(OpenBlocking) /\ config \in RetryConfigs

SpecRetry == InitRetry /\ [][NextAuth]_vars

\* Callers of both execution models under token-based signing, without
\* retries, while the application closes the client at any moment.
ConnConfigs ==
  [max_retries : {0}, retry_backoff_factor : {0}, auth : {"tba"}]

InitConn == Init /\ config \in ConnConfigs

NextConn ==
  \/ \E c \in Callers : Start(c)
  \/ \E c \in Callers : CreateClient(c)
  \/ \E c \in Callers : ReturnClient(c)
  \/ \E c \in Callers : SendOnClosed(c)
  \/ \E c \in Callers : auth_flow(c)
  \/ \E c \in Callers : ApiCoarse(c)
  \/ Close
  \/ AClose

SpecConn == InitConn /\ [][NextConn]_vars
\* One thread of control: requests and closes one after the other, in any
\* order, on one client under token-based signing.
Quiet == \A c \in Callers : pc[c] \in {"idle", "done"}

SeqStart(c) == Quiet /\ Start(c)
SeqClose == Quiet /\ Close
SeqAClose == Quiet /\ AClose

NextConnSeq ==
  \/ \E c \in Callers : SeqStart(c)
  \/ \E c \in Callers : CreateClient(c)
  \/ \E c \in Callers : ReturnClient(c)
  \/ \E c \in Callers : auth_flow(c)
  \/ \E c \in Callers : ApiCoarse(c)
  \/ SeqClose
  \/ SeqAClose

SpecConnSeq == InitConn /\ [][NextConnSeq]_vars

\* One blocking and one cooperative request of one client under token-based
\* signing against the same answers of the server: its k-th answer to either
\* caller is script[k], NoResp standing for a transport failure.
ScriptResponses ==
  {NoResp, Resp(200, TRUE, TRUE, NoBody, None),
   Resp(429, TRUE, TRUE, ErrBody, Some("5")), Resp(429, TRUE, TRUE, ErrBody, Some("-5")),
   Resp(500, TRUE, TRUE, ErrBody, None)}

Scripts == [1..(MaxRetries + 1) -> ScriptResponses]

EquivConfigs ==
  [max_retries : -1..MaxRetries, retry_backoff_factor : Factors, auth : {"tba"}]

\* The two requests compared: caller 1 blocking, caller 2 cooperative.
Duo == {1, 2}
ModeOf(c) == IF c = 1 THEN "sync" ELSE "async"

InitEquiv ==
  /\ config \in EquivConfigs
  /\ now = 0
  /\ access_token = None
  /\ expires_at = 0
  /\ InitLocks
  /\ InitNoSign
  /\ InitNoUrl
  /\ InitCallers
  /\ script \in Scripts
  /\ Built
  /\ valid_out = None
  /\ InitBackoff
  /\ InitClassify
  /\ InitNoIterator

StartAs(c) == pc[c] = "idle" /\ StartRequest(c, ModeOf(c))

Scripted(c) ==
  /\ calls[c] \in DOMAIN script
  /\ IF script[calls[c]] = NoResp
       THEN TransportError(c)
       ELSE Receive(c, script[calls[c]])

NextEquiv ==
  \/ \E c \in Duo : StartAs(c)
  \/ \E c \in Duo : LoopExit(c)
  \/ \E c \in Duo : CreateClient(c)
  \/ \E c \in Duo : ReturnClient(c)
  \/ \E c \in Duo : auth_flow(c)
  \/ \E c \in Duo : Scripted(c)
  \/ \E c \in Duo : Wake(c)

SpecEquiv == InitEquiv /\ [][NextEquiv]_vars

\* Construction first: NetSuiteConfig(...) with any combination of
\* credentials, then NetSuiteClient(config), then requests without retries
\* by callers of both execution models.
BuildInputs == [tba : BOOLEAN, oauth2 : BOOLEAN, key_readable : BOOLEAN]
NoConfig == [max_retries |-> 0, retry_backoff_factor |-> 0, auth |-> "none"]

InitBuild ==
  /\ config = NoConfig
  /\ now = 0
  /\ access_token = None
  /\ expires_at = 0
  /\ InitLocks
  /\ InitNoSign
  /\ InitNoUrl
  /\ InitCallers
  /\ script = <<>>
  /\ build_in \in BuildInputs
  /\ build_out = NotBuilt
  /\ valid_out = None
  /\ InitBackoff
  /\ InitClassify
  /\ InitNoIterator

BuildFrame ==
  /\ UNCHANGED <<now, cacheVars, lockVars, issued, nonces, started, pc, mode,
                 attempt, response, exc, last_exc, result, tok_resp, calls, signs,
                 waits, sent, connVars, script, build_in>>
  /\ UNCHANGED <<valid_out, backoffVars, classifyVars, pageVars, signVars, urlVars>>

\* NetSuiteConfig(...): the model validator runs after field validation.
ConstructConfig ==
  /\ build_out.stage = "none"
  /\ LET e == _check_auth(build_in.tba, build_in.oauth2) IN
       build_out' = IF e = "" THEN BuildOut("config", "", "none")
                    ELSE BuildOut("error", e, "none")
  /\ UNCHANGED config
  /\ BuildFrame

\* NetSuiteClient(config): self._auth = self._build_auth(config).
ConstructClient ==
  /\ build_out.stage = "config"
  /\ build_out' = _build_auth(build_in.tba, build_in.oauth2, build_in.key_readable)
  /\ config' = [config EXCEPT !.auth = build_out'.auth]
  /\ BuildFrame

BuiltStart(c) == build_out.stage = "client" /\ Start(c)

NextBuild ==
  \/ ConstructConfig
  \/ ConstructClient
  \/ \E c \in Callers : BuiltStart(c)
  \/ \E c \in Callers : CreateClient(c)
  \/ \E c \in Callers : ReturnClient(c)
  \/ \E c \in Callers : auth_flow(c)
  \/ \E c \in Callers : AuthCheck(c)
  \/ \E c \in Callers : Token(c)
  \/ \E c \in Callers : StoreExpiry(c)
  \/ \E c \in Callers : TokenTransportError(c)
  \/ \E c \in Callers : AttachBearer(c)
  \/ \E c \in Callers : ApiCoarse(c)

SpecBuild == InitBuild /\ [][NextBuild]_vars

\* TBAAuth.auth_flow on its own: two requests signed with the same nonce,
\* timestamp and credentials.
SeqsUpTo(S, n) == UNION {[1..k -> S] : k \in 0..n}
QueryItems == {<<"k", "1">>, <<"k", "2">>, <<"m", "1">>}
Requests ==
  {Request(m, p, q, b) : m \in {"GET", "POST"}, p \in {"/a", "/b"},
                         q \in SeqsUpTo(QueryItems, MaxQuery), b \in {"", "x"}}

InitPure ==
  /\ config = [max_retries |-> 0, retry_backoff_factor |-> 0, auth |-> "tba"]
  /\ now = 0
  /\ access_token = None
  /\ expires_at = 0
  /\ InitLocks
  /\ InitCallers
  /\ script = <<>>
  /\ Built
  /\ valid_out = None
  /\ InitBackoff
  /\ InitClassify
  /\ InitNoIterator

InitSign ==
  /\ InitPure
  /\ sign_in \in [a : Requests, b : Requests]
  /\ sign_out = None
  /\ InitNoUrl

CallAuthFlow ==
  /\ sign_out = None
  /\ sign_out' = Some([a |-> Signed(sign_in.a, "fixednonce", "1700000000"),
                       b |-> Signed(sign_in.b, "fixednonce", "1700000000")])
  /\ UNCHANGED <<clientVars, valid_out, backoffVars, classifyVars, pageVars,
                 sign_in, urlVars>>

NextSign == CallAuthFlow

SpecSign == InitSign /\ [][NextSign]_vars

\* computed_base_url and _token_url on their own: any override (none, empty,
\* with and without trailing slashes) and any account id.
UrlInputs ==
  [base_url : {None} \cup {Some(u) : u \in SeqsUpTo({"h", "/"}, MaxUrlLen)},
   account_id : SeqsUpTo({"A", "a", "_", "1"}, MaxAcctLen)]

InitUrl ==
  /\ InitPure
  /\ InitNoSign
  /\ url_in \in UrlInputs
  /\ url_out = None

CallComputedBaseUrl ==
  /\ url_out = None
  /\ url_out' = Some([base |-> computed_base_url(url_in.base_url, url_in.account_id),
                      token |-> _token_url(url_in.account_id)])
  /\ UNCHANGED <<clientVars, valid_out, backoffVars, classifyVars, pageVars,
                 url_in, signVars>>

NextUrl == CallComputedBaseUrl

SpecUrl == InitUrl /\ [][NextUrl]_vars

\* _is_token_valid on its own: any cache content at any time near the
\* 60-second boundary, a fresh auth object (no token, expiry 0) included.
ValidInputs ==
  [token : {None, Some(1)},
   expiry : {0} \cup ((SKEW - 2)..(SKEW + MaxNow + 2)),
   time : 0..MaxNow]

InitValid ==
  /\ config = [max_retries |-> 0, retry_backoff_factor |-> 0, auth |-> "oauth2"]
  /\ \E i \in ValidInputs :
       access_token = i.token /\ expires_at = i.expiry /\ now = i.time
  /\ InitLocks
  /\ InitNoSign
  /\ InitNoUrl
  /\ InitCallers
  /\ script = <<>>
  /\ Built
  /\ valid_out = None
  /\ InitBackoff
  /\ InitClassify
  /\ InitNoIterator

CallIsTokenValid ==
  /\ valid_out = None
  /\ valid_out' = Some(_is_token_valid(access_token, expires_at, now))
  /\ UNCHANGED <<clientVars, signVars, urlVars, backoffVars, classifyVars, pageVars>>

NextValid == CallIsTokenValid

SpecValid == InitValid /\ [][NextValid]_vars

\* calculate_backoff on its own: attempt indices from 0, a hint that is
\* absent or one of the values parse_retry_after can give, a factor that is
\* passed or left to its default.
BackoffInputs ==
  [attempt : 0..MaxAttempt,
   retry_after : {None, Some(0), Some(5), Some(7)},
   backoff_factor : {None, Some(1), Some(2), Some(3)}]

InitBackoffCall ==
  /\ config = [max_retries |-> 0, retry_backoff_factor |-> 0, auth |-> "tba"]
  /\ now = 0
  /\ access_token = None
  /\ expires_at = 0
  /\ InitLocks
  /\ InitNoSign
  /\ InitNoUrl
  /\ InitCallers
  /\ script = <<>>
  /\ Built
  /\ valid_out = None
  /\ backoff_in \in BackoffInputs
  /\ backoff_out = None
  /\ InitClassify
  /\ InitNoIterator

CallCalculateBackoff ==
  /\ backoff_out = None
  /\ backoff_out' =
       Some(calculate_backoff(
              backoff_in.attempt, backoff_in.retry_after,
              IF backoff_in.backoff_factor = None THEN DEFAULT_BACKOFF_FACTOR
              ELSE Get(backoff_in.backoff_factor)))
  /\ UNCHANGED <<clientVars, signVars, urlVars, valid_out, backoff_in, classifyVars, pageVars>>

NextBackoff == CallCalculateBackoff

SpecBackoff == InitBackoffCall /\ [][NextBackoff]_vars

\* _build_exception on its own: every status of the taxonomy and some
\* outside it, a body that is the structured error payload (any title,
\* status, code, details) or is not, any Retry-After header.
ClassifyStatuses == {400, 401, 403, 404, 409, 429, 500, 502, 503, 504}
ErrorDetails ==
  {<<>>, <<Detail("Invalid value", "INVALID_FLD", Some("name"))>>,
   <<Detail("", "", None), Detail("Missing", "REQD", None)>>}
ErrorBodies ==
  [title : {"", "Invalid field"}, status : {0, 422},
   error_code : {"", "INVALID_FLD"}, error_details : ErrorDetails]
ClassifyInputs ==
  {Resp(s, TRUE, TRUE, b, h) :
     s \in ClassifyStatuses, b \in ErrorBodies, h \in RetryAfterHeaders}
  \cup {Resp(s, c, FALSE, NoBody, h) :
          s \in ClassifyStatuses, c \in BOOLEAN, h \in RetryAfterHeaders}

InitClassifyCall ==
  /\ config = [max_retries |-> 0, retry_backoff_factor |-> 0, auth |-> "tba"]
  /\ now = 0
  /\ access_token = None
  /\ expires_at = 0
  /\ InitLocks
  /\ InitNoSign
  /\ InitNoUrl
  /\ InitCallers
  /\ script = <<>>
  /\ Built
  /\ valid_out = None
  /\ InitBackoff
  /\ classify_in \in ClassifyInputs
  /\ classify_out = None
  /\ InitNoIterator

CallBuildException ==
  /\ classify_out = None
  /\ classify_out' = Some(_build_exception(classify_in))
  /\ UNCHANGED <<clientVars, signVars, urlVars, valid_out, backoffVars, classify_in, pageVars>>

NextClassify == CallBuildException

SpecClassify == InitClassifyCall /\ [][NextClassify]_vars

\* ------------------------------------------- pagination (_pagination.py)
\* A PaginatedResponse as the iterator reads it: items and has_more.
Page(items, has_more) == [items |-> items, has_more |-> has_more]

\* What fetch_page was called with; nth counts the pages returned before.
Fetch(limit, offset, nth) == [limit |-> limit, offset |-> offset, nth |-> nth]

\* The server hands out items n+1 .. n+k.
ItemsFrom(n, k) == [i \in 1..k |-> n + i]

Advance_by_one(off, lim) == off + 1

\* self._offset += self._limit
Advance(off, lim) == off + lim
\* Every empty page dropped, the last one or not.
DropPage_any_empty(page, exhausted) == page.items = <<>>

DropPage_never(page, exhausted) == FALSE

\* not page.items and self._exhausted
DropPage(page, exhausted) == page.items = <<>> /\ exhausted

PageItems_rest(page) == IF page.items = <<>> THEN <<>> ELSE Tail(page.items)

\* yield from page.items
PageItems(page) == page.items

PageIterators == {"SyncPageIterator", "AsyncPageIterator"}
ItemStreams == {"iter_items_sync", "iter_items_async"}
IsItemStream == kind \in ItemStreams

\* The consumer can ask the iterator for a page: directly, or through the
\* generator once it has yielded every item of the page before.
CanAsk ==
  /\ kind # "none"
  /\ ~fetching
  /\ IsItemStream => gen_state = "running" /\ buffer = <<>>

\* __next__ / __anext__ when fetch_page returns a page of k items.
NextPage(k, has_more) ==
  /\ CanAsk
  /\ ~_exhausted
  /\ Len(requested) < MaxFetches
  /\ LET page == Page(ItemsFrom(next_id, k), has_more)
     IN /\ requested' = Append(requested, Fetch(_limit, _offset, Len(fetched)))
        /\ fetched' = Append(fetched, page)
        /\ next_id' = next_id + k
        /\ _exhausted' = IF ~page.has_more THEN TRUE ELSE _exhausted
        /\ _offset' = IF ~page.has_more THEN _offset ELSE Advance(_offset, _limit)
        /\ IF DropPage(page, _exhausted')
             THEN /\ stops' = stops + 1
                  /\ gen_state' = IF IsItemStream THEN "done" ELSE gen_state
                  /\ UNCHANGED <<yielded, buffer>>
             ELSE /\ yielded' = Append(yielded, page)
                  /\ buffer' = IF IsItemStream THEN PageItems(page) ELSE buffer
                  /\ UNCHANGED <<stops, gen_state>>
  /\ UNCHANGED <<kind, offset_arg, _limit, fetching, raised, items_out>>
  /\ UNCHANGED <<clientVars, signVars, urlVars, valid_out, backoffVars, classifyVars>>
\* A failed fetch that moves the offset on all the same.
NextPageRaises_skipping ==
  /\ CanAsk
  /\ ~_exhausted
  /\ Len(requested) < MaxFetches
  /\ raised < MaxRaises
  /\ requested' = Append(requested, Fetch(_limit, _offset, Len(fetched)))
  /\ raised' = raised + 1
  /\ _offset' = Advance(_offset, _limit)
  /\ gen_state' = IF IsItemStream THEN "failed" ELSE gen_state
  /\ UNCHANGED <<kind, offset_arg, _limit, _exhausted, fetching, next_id, fetched,
                 yielded, stops, buffer, items_out>>
  /\ UNCHANGED <<clientVars, signVars, urlVars, valid_out, backoffVars, classifyVars>>

\* __next__ / __anext__ when fetch_page raises: the error goes through, and
\* through the generator, which is over with it.
NextPageRaises ==
  /\ CanAsk
  /\ ~_exhausted
  /\ Len(requested) < MaxFetches
  /\ raised < MaxRaises
  /\ requested' = Append(requested, Fetch(_limit, _offset, Len(fetched)))
  /\ raised' = raised + 1
  /\ gen_state' = IF IsItemStream THEN "failed" ELSE gen_state
  /\ UNCHANGED <<iterVars, fetching, next_id, fetched, yielded, stops, buffer,
                 items_out>>
  /\ UNCHANGED <<clientVars, signVars, urlVars, valid_out, backoffVars, classifyVars>>

\* __next__ / __anext__ on an exhausted iterator (lines 28-29, 58-59).
NextExhausted ==
  /\ CanAsk
  /\ _exhausted
  /\ stops < MaxStops
  /\ stops' = stops + 1
  /\ gen_state' = IF IsItemStream THEN "done" ELSE gen_state
  /\ UNCHANGED <<iterVars, fetching, next_id, requested, fetched, yielded, raised,
                 buffer, items_out>>
  /\ UNCHANGED <<clientVars, signVars, urlVars, valid_out, backoffVars, classifyVars>>

\* The generator yields the next item of the current page.
YieldItem ==
  /\ IsItemStream
  /\ gen_state = "running"
  /\ buffer # <<>>
  /\ items_out' = Append(items_out, Head(buffer))
  /\ buffer' = Tail(buffer)
  /\ UNCHANGED <<iterVars, pageLog, gen_state>>
  /\ UNCHANGED <<clientVars, signVars, urlVars, valid_out, backoffVars, classifyVars>>

Limits == {None} \cup {Some(l) : l \in 0..MaxLimit}
Offsets == {None, Some(0), Some(3)}

\* SyncPageIterator.__init__ / AsyncPageIterator.__init__; iter_items_sync
\* and iter_items_async pass the limit only.
InitIterator ==
  /\ kind \in PageIterators \cup ItemStreams
  /\ offset_arg \in (IF IsItemStream THEN {None} ELSE Offsets)
  /\ \E l \in Limits : _limit = IF l = None THEN DEFAULT_PAGE_SIZE ELSE Get(l)
  /\ _offset = IF offset_arg = None THEN DEFAULT_OFFSET ELSE Get(offset_arg)
  /\ _exhausted = FALSE

InitPages ==
  /\ config = [max_retries |-> 0, retry_backoff_factor |-> 0, auth |-> "tba"]
  /\ now = 0
  /\ access_token = None
  /\ expires_at = 0
  /\ InitLocks
  /\ InitNoSign
  /\ InitNoUrl
  /\ InitCallers
  /\ script = <<>>
  /\ Built
  /\ valid_out = None
  /\ InitBackoff
  /\ InitClassify
  /\ InitIterator
  /\ InitPageLog

FetchReturns == \E k \in 0..MaxPageItems, m \in BOOLEAN : NextPage(k, m)

NextPages ==
  \/ FetchReturns
  \/ NextPageRaises
  \/ NextExhausted
  \/ YieldItem

SpecPages == InitPages /\ [][NextPages]_vars

\* Fetches past the first MaxFetches, which are the ones the logs keep: with
\* limit 0 the offset stays where it is, so the iterator can be followed for
\* as long as it runs.  __next__ / __anext__ calls fetch_page ...
AskBeyondLog ==
  /\ CanAsk
  /\ ~_exhausted
  /\ Len(requested) = MaxFetches
  /\ _limit = 0
  /\ fetching' = TRUE
  /\ UNCHANGED <<iterVars, next_id, requested, fetched, yielded, stops, raised,
                 genVars>>
  /\ UNCHANGED <<clientVars, signVars, urlVars, valid_out, backoffVars, classifyVars>>

\* ... and fetch_page returns an empty page.
AnswerBeyondLog(has_more) ==
  /\ fetching
  /\ fetching' = FALSE
  /\ LET page == Page(<<>>, has_more)
     IN /\ _exhausted' = IF ~page.has_more THEN TRUE ELSE _exhausted
        /\ _offset' = IF ~page.has_more THEN _offset ELSE Advance(_offset, _limit)
        /\ IF DropPage(page, _exhausted')
             THEN /\ stops' = stops + 1
                  /\ gen_state' = IF IsItemStream THEN "done" ELSE gen_state
             ELSE UNCHANGED <<stops, gen_state>>
  /\ UNCHANGED <<kind, offset_arg, _limit, next_id, requested, fetched, yielded,
                 raised, buffer, items_out>>
  /\ UNCHANGED <<clientVars, signVars, urlVars, valid_out, backoffVars, classifyVars>>

FetchBeyondLogReturns == \E m \in BOOLEAN : AnswerBeyondLog(m)

InitPagesToEnd == InitPages /\ _limit = 0

NextPagesToEnd ==
  \/ NextPages
  \/ AskBeyondLog
  \/ FetchBeyondLogReturns

\* A consumer that keeps asking until the end (a for loop, list()) over an
\* iterator created with limit 0.
SpecPagesToEnd ==
  InitPagesToEnd /\ [][NextPagesToEnd]_vars /\ WF_vars(NextPagesToEnd)

\* ------------------------------------------------------------------ claims
Retryable(st) == st = 429 \/ st >= 500
IsForeign(e) == e.cls \in {"TransportError", "KeyError", "JSONDecodeError"}
\* The logical request of c is over and it was a response that ended it.
EndedByResponse(c) ==
  pc[c] = "done" /\ response[c] # NoResp /\ ~IsForeign(result[c].exc)

\* C1: with max_retries = N >= 0 a logical request never issues more than
\* N + 1 physical API calls, and a request whose last response (hence every
\* response) was 429 or >= 500 has issued exactly N + 1 and raised the error
\* classified from that response.
C1_AtMostNPlusOneCalls ==
  \A c \in Callers :
    config.max_retries >= 0 =>
      /\ calls[c] <= config.max_retries + 1
      /\ (EndedByResponse(c) /\ Retryable(response[c].status)) =>
            /\ calls[c] = config.max_retries + 1
            /\ result[c].kind = "raise"
            /\ result[c].exc.status = Some(response[c].status)
            /\ result[c].exc.cls =
                 IF ~response[c].json_ok THEN "NetSuiteError"
                 ELSE IF response[c].status = 429 THEN "ConcurrencyLimitError"
                 ELSE IF response[c].status \in {500, 502, 503} THEN "ServerError"
                 ELSE "NetSuiteError"

NonRetryable4xx(st) == st >= 400 /\ st < 500 /\ st # 429

\* C2: once an attempt has received a 4xx other than 429 the logical request
\* is over: the classified error is raised, the number of waits is the number
\* of earlier attempts, and no further physical call follows.
C2_ClientErrorEndsRequest ==
  \A c \in Callers :
    NonRetryable4xx(response[c].status) =>
      /\ pc[c] = "done"
      /\ result[c].kind = "raise"
      /\ result[c].exc.status = Some(response[c].status)
      /\ result[c].exc.cls =
           IF ~response[c].json_ok THEN "NetSuiteError"
           ELSE CASE response[c].status = 400 -> "ValidationError"
                  [] response[c].status = 401 -> "AuthenticationError"
                  [] response[c].status = 403 -> "AuthorizationError"
                  [] response[c].status = 404 -> "NotFoundError"
                  [] OTHER -> "NetSuiteError"
      /\ calls[c] = attempt[c] + 1
      /\ Len(waits[c]) = attempt[c]

\* A 404 on the second attempt of a client with max_retries = 2.
C2_Witness ==
  \E c \in Callers :
    /\ response[c].status = 404 /\ attempt[c] = 1 /\ config.max_retries = 2
    /\ pc[c] = "done" /\ result[c].exc.cls = "NotFoundError"

\* C3: when the last permitted attempt gets a 429 or a 5xx, the error raised
\* is the one exception classified from that attempt's response.
C3_LastErrorRaised ==
  \A c \in Callers :
    (/\ EndedByResponse(c)
     /\ config.max_retries >= 0
     /\ attempt[c] = config.max_retries
     /\ Retryable(response[c].status)) =>
       /\ result[c].kind = "raise"
       /\ result[c].exc = exc[c]
       /\ exc[c].status = Some(response[c].status)
       /\ exc[c].msg = IF response[c].json_ok THEN Msg("Error", 0)
                       ELSE Msg("HTTP", response[c].status)
       /\ exc[c].retry_after =
            IF response[c].status = 429 /\ response[c].json_ok
                 /\ response[c].retry_after = Some("5")
              THEN Some(5)
            ELSE IF response[c].status = 429 /\ response[c].json_ok
                 /\ response[c].retry_after = Some("-5")
              THEN Some(-5) ELSE None

\* Retries exhausted after an earlier attempt whose error was a different one.
C3_Witness ==
  \E c \in Callers :
    /\ EndedByResponse(c) /\ attempt[c] = config.max_retries
    /\ attempt[c] >= 1 /\ Retryable(response[c].status)
    /\ last_exc[c] # NoExc /\ last_exc[c] # exc[c]
    /\ result[c].exc = exc[c]

C5_SignedPerAttempt ==
  \A c \in Callers :
    /\ Len(sent[c]) = calls[c]
    /\ pc[c] \in {"inflight", "sleep", "done"} /\ calls[c] > 0 => signs[c] >= calls[c]
    /\ pc[c] = "inflight" => signs[c] = attempt[c] + 1 /\ calls[c] = attempt[c] + 1
    /\ \A i \in 1..Len(sent[c]) : sent[c][i].made_in = i - 1
    /\ config.auth = "tba" =>
         \A i, j \in 1..Len(sent[c]) : i # j => sent[c][i].nonce # sent[c][j].nonce
    /\ config.auth = "oauth2" =>
         \A i \in 1..Len(sent[c]) : sent[c][i].scheme = "Bearer" /\ IsSome(sent[c][i].token)

\* The third attempt of a token-signed request is in flight.
C5_Witness ==
  \E c \in Callers :
    /\ config.auth = "tba" /\ pc[c] = "inflight" /\ attempt[c] = 2
    /\ Len(sent[c]) = 3 /\ sent[c][3].nonce # sent[c][1].nonce

C7_NeverUsedNearExpiry ==
  [][\A c \in Callers :
       (pc[c] = "attach" /\ pc'[c] = "inflight") => now < expires_at - 60]_vars

\* C8: every step that reads or writes the token cache is taken by a caller
\* that holds the lock of its execution model.
C8_CacheAccessUnderLock ==
  [][\A c \in Callers :
       (\/ pc[c] = "token_inflight" /\ pc'[c] = "store"
        \/ pc[c] = "store" /\ pc'[c] = "attach"
        \/ pc[c] = "attach" /\ pc'[c] = "inflight") => Holds(c)]_vars

\* C9 as claimed: no two callers of one client, of whichever execution
\* models, are inside _store_token together.
C9_WritersNeverOverlap ==
  \A c, d \in Callers : c # d => ~(pc[c] = "store" /\ pc[d] = "store")

\* C9 as amended: a caller between the token request and the end of
\* _store_token holds the lock of its own execution model, each lock has at
\* most one owner, and no two callers of the same execution model are inside
\* that scope together.
C9_WritersSerialisedPerModel ==
  /\ Cardinality(sync_lock) <= 1
  /\ Cardinality(async_lock.owner) <= 1
  /\ \A c \in Callers :
       pc[c] \in {"token_inflight", "store"} =>
         /\ IF mode[c] = "sync" THEN sync_lock = {c} ELSE async_lock.owner = {c}
         /\ \A d \in Callers \ {c} :
              mode[d] = mode[c] => pc[d] \notin {"token_inflight", "store"}

\* One caller is inside _store_token, another of the same execution model
\* waits for the lock.
C9_Witness ==
  \E c, d \in Callers :
    /\ c # d /\ mode[c] = mode[d]
    /\ pc[c] = "store" /\ pc[d] = "loop"

\* C10: _is_token_valid returns true exactly when a token is present and
\* now < E - 60: true at E - 61, false at E - 60 and at E - 59, false on a
\* fresh auth object.
C10_ValidBeforeSkew ==
  valid_out # None =>
    /\ Get(valid_out) = (access_token # None /\ now < expires_at - 60)
    /\ (access_token # None /\ now = expires_at - 61) => Get(valid_out)
    /\ now = expires_at - 60 => ~Get(valid_out)
    /\ now = expires_at - 59 => ~Get(valid_out)
    /\ (access_token = None /\ expires_at = 0) => ~Get(valid_out)

\* A token is present and the time is E - 61: reported valid.
C10_Witness ==
  /\ valid_out = Some(TRUE)
  /\ access_token # None
  /\ now = expires_at - 61

\* C11: while the pipeline waits after a 429 on an attempt that is not the
\* last, the wait is the retry-after hint of the classified error when that
\* error carries one, and factor * 2^attempt otherwise.
C11_WaitUsesClassifiedHint ==
  \A c \in Callers :
    (pc[c] = "sleep" /\ response[c].status = 429) =>
      Last(waits[c]) =
        IF exc[c].retry_after # None THEN Get(exc[c].retry_after)
        ELSE config.retry_backoff_factor * (2 ^ attempt[c])

\* C12: while the pipeline waits after a status >= 500 on an attempt that is
\* not the last, this attempt has added one wait and it is
\* factor * 2^attempt, whatever Retry-After header the response carries.
C12_ServerErrorWaitIsExponential ==
  \A c \in Callers :
    (pc[c] = "sleep" /\ response[c].status >= 500) =>
      /\ attempt[c] < config.max_retries
      /\ Len(waits[c]) = attempt[c] + 1
      /\ Last(waits[c]) = config.retry_backoff_factor * (2 ^ attempt[c])

\* The second attempt got a 500 with Retry-After: 5; factor 2, so the wait is 4.
C12_Witness ==
  \E c \in Callers :
    /\ pc[c] = "sleep" /\ attempt[c] = 1 /\ config.retry_backoff_factor = 2
    /\ response[c].status = 500 /\ response[c].retry_after = Some("5")
    /\ Last(waits[c]) = 4

\* C13: calculate_backoff(a, h, f) returns h unchanged when a hint is given,
\* whatever a and f are, and f * 2^a when it is not, for every a >= 0 and
\* f > 0, where f is 1 when the caller passes no factor.
C13_BackoffIsHintOrExponential ==
  backoff_out # None =>
    LET a == backoff_in.attempt
        h == backoff_in.retry_after
        f == IF backoff_in.backoff_factor = None THEN 1
             ELSE Get(backoff_in.backoff_factor)
    IN /\ h # None => backoff_out = h
       /\ h = None => backoff_out = Some(f * (2 ^ a))

\* A hint of 5 seconds at attempt 2 with factor 3 (3 * 2^2 = 12): 5 returned.
C13_Witness ==
  /\ backoff_in = [attempt |-> 2, retry_after |-> Some(5), backoff_factor |-> Some(3)]
  /\ backoff_out = Some(5)

\* C14: an iterator created with a limit L only asks fetch_page for limit L
\* and for the offsets 0, L, 2L, ... in that order (the offset asked is L
\* times the number of pages returned before, so (i - 1) * L for the i-th
\* fetch when no fetch failed), each request for a page making one fetch;
\* every fetched page but the last reported has_more, so nothing is fetched
\* after a page with has_more = false; from then on the iterator is and
\* stays exhausted, and end of iteration is signalled only in that state.
C14_OffsetsInOrderThenEnd ==
  (kind # "none" /\ offset_arg = None) =>
    /\ \A i \in 1..Len(requested) :
         /\ requested[i].limit = _limit
         /\ requested[i].offset = _limit * requested[i].nth
         /\ raised = 0 => requested[i].offset = (i - 1) * _limit
    /\ Len(requested) = Len(fetched) + raised
    /\ \A i \in 1..(Len(fetched) - 1) : fetched[i].has_more
    /\ _exhausted <=> (fetched # <<>> /\ ~Last(fetched).has_more)
    /\ stops > 0 => _exhausted
    /\ Len(yielded) <= Len(fetched)

\* Limit 2: offsets 0, 2, 4 were fetched, the third page was the last, and
\* two more requests for a page were answered with end of iteration.
C14_Witness ==
  /\ kind = "SyncPageIterator" /\ offset_arg = None /\ _limit = 2
  /\ Len(requested) = 3 /\ raised = 0
  /\ requested[1].offset = 0 /\ requested[2].offset = 2 /\ requested[3].offset = 4
  /\ Len(yielded) = 3 /\ _exhausted /\ stops = 2

\* C15: when the first page fetched is empty with has_more = false, no page
\* is yielded, that fetch is the only one that returned, and the iterator is
\* exhausted with end of iteration signalled.
C15_EmptyFirstPageYieldsNothing ==
  (fetched # <<>> /\ fetched[1].items = <<>> /\ ~fetched[1].has_more) =>
    /\ yielded = <<>>
    /\ items_out = <<>>
    /\ Len(fetched) = 1
    /\ Len(requested) = 1 + raised
    /\ _exhausted
    /\ stops >= 1

\* One fetch, an empty last page: zero pages and one end-of-iteration signal.
C15_Witness ==
  /\ kind \in PageIterators
  /\ Len(requested) = 1 /\ raised = 0
  /\ fetched = <<[items |-> <<>>, has_more |-> FALSE]>>
  /\ yielded = <<>> /\ stops = 1

RECURSIVE Flatten(_)
Flatten(ps) == IF ps = <<>> THEN <<>> ELSE Head(ps).items \o Flatten(Tail(ps))

\* C16: the item stream has yielded, in order, a prefix of the items of the
\* pages fetched, the rest of the current page still to come; the server's
\* items being numbered in the order it hands them out, the stream is 1, 2,
\* 3, ... with no gap and no repeat; once the stream has ended normally it is
\* the whole concatenation and the last page fetched is the first one with
\* has_more = false.  Pages ([1,2], more), ([3], no more) give [1,2,3] with
\* offsets 0 and limit.
C16_ItemsAreConcatenation ==
  IsItemStream =>
    /\ items_out \o buffer = Flatten(fetched)
    /\ items_out = [i \in 1..Len(items_out) |-> i]
    /\ gen_state = "done" =>
         /\ items_out = Flatten(fetched)
         /\ Len(items_out) = next_id
         /\ fetched # <<>> /\ ~Last(fetched).has_more
         /\ \A i \in 1..(Len(fetched) - 1) : fetched[i].has_more
    /\ (/\ gen_state = "done" /\ raised = 0
        /\ fetched = <<[items |-> <<1, 2>>, has_more |-> TRUE],
                       [items |-> <<3>>, has_more |-> FALSE]>>) =>
         /\ items_out = <<1, 2, 3>>
         /\ requested = <<[limit |-> _limit, offset |-> 0, nth |-> 0],
                          [limit |-> _limit, offset |-> _limit, nth |-> 1]>>

\* The stream over ([1,2], more), ([3], no more) has ended with [1,2,3].
C16_Witness ==
  /\ kind = "iter_items_sync" /\ gen_state = "done" /\ _limit = 2
  /\ fetched = <<[items |-> <<1, 2>>, has_more |-> TRUE],
                 [items |-> <<3>>, has_more |-> FALSE]>>
  /\ items_out = <<1, 2, 3>>
  /\ Len(requested) = 2 /\ requested[1].offset = 0 /\ requested[2].offset = 2

\* C17: whatever fetch_page answers, a consumer that keeps asking reaches
\* the end: the iterator becomes exhausted (or a fetch error ends the
\* iteration).
C17_IterationEnds == <>(_exhausted \/ raised > 0)

TypedErrors ==
  {"NetSuiteError", "AuthenticationError", "AuthorizationError", "NotFoundError",
   "ValidationError", "ConcurrencyLimitError", "ServerError", "ConfigurationError"}
Is2xx(st) == st >= 200 /\ st < 300

\* C18: every response outside 2xx received for a logical request has
\* produced one typed error: for an API response the error classified from
\* it, which the retry loop consumed (it waits, or has recorded it as the
\* last error) or which was raised; for a token-endpoint response a typed
\* error raised to the caller.
C18_NonSuccessGivesTypedError ==
  \A c \in Callers :
    /\ (response[c] # NoResp /\ ~Is2xx(response[c].status)) =>
         /\ exc[c].cls \in TypedErrors
         /\ exc[c].status = Some(response[c].status)
         /\ \/ pc[c] = "sleep"
            \/ last_exc[c] = exc[c]
            \/ result[c] = [kind |-> "raise", value |-> "", exc |-> exc[c]]
    /\ (tok_resp[c] # NoTokResp /\ ~Is2xx(tok_resp[c].status)) =>
         /\ result[c].kind = "raise"
         /\ result[c].exc.cls \in TypedErrors

\* C19: for a status >= 400 with a body that parses as the error payload
\* the classifier returns one error whose class follows from the HTTP
\* status alone (400 Validation, 401 Authentication, 403 Authorization, 404
\* NotFound, 429 ConcurrencyLimit, 500/502/503 Server, anything else the
\* generic NetSuiteError), with the payload's error code and detail entries,
\* and with the payload's title as message, 'HTTP <status>' for an empty one.
C19_ClassifiedByStatus ==
  (classify_out # None /\ classify_in.json_ok /\ classify_in.status >= 400) =>
    LET r == classify_in
        e == Get(classify_out)
    IN /\ e.cls = CASE r.status = 400 -> "ValidationError"
                    [] r.status = 401 -> "AuthenticationError"
                    [] r.status = 403 -> "AuthorizationError"
                    [] r.status = 404 -> "NotFoundError"
                    [] r.status = 429 -> "ConcurrencyLimitError"
                    [] r.status \in {500, 502, 503} -> "ServerError"
                    [] OTHER -> "NetSuiteError"
       /\ e.error_code = Some(r.body.error_code)
       /\ e.error_details = r.body.error_details
       /\ e.msg = IF r.body.title = "" THEN [text |-> "HTTP", code |-> r.status]
                  ELSE [text |-> r.body.title, code |-> 0]

\* A 504 with a payload without title: the generic error, the payload's
\* code and details, message 'HTTP 504'.
C19_Witness ==
  /\ classify_out # None
  /\ classify_in.status = 504 /\ classify_in.json_ok
  /\ classify_in.body.title = "" /\ classify_in.body.error_code = "INVALID_FLD"
  /\ Len(classify_in.body.error_details) = 2
  /\ Get(classify_out).cls = "NetSuiteError"
  /\ Get(classify_out).msg = [text |-> "HTTP", code |-> 504]
  /\ Get(classify_out).error_code = Some("INVALID_FLD")

\* C20: for a body that does not parse as the error payload the classifier
\* returns the generic NetSuiteError with the HTTP status, no error code, no
\* detail entries, no retry-after hint and the message 'HTTP <status>',
\* whatever the status.
C20_UnparsedBodyGivesGeneric ==
  (classify_out # None /\ ~classify_in.json_ok) =>
    Get(classify_out) =
      [cls |-> "NetSuiteError",
       msg |-> [text |-> "HTTP", code |-> classify_in.status],
       status |-> Some(classify_in.status),
       error_code |-> None, error_details |-> <<>>, retry_after |-> None]

\* A 429 with Retry-After: 5 and a body that is not JSON: generic, no hint.
C20_Witness ==
  /\ classify_out # None
  /\ classify_in.status = 429 /\ ~classify_in.json_ok /\ classify_in.content
  /\ classify_in.retry_after = Some("5")
  /\ Get(classify_out).cls = "NetSuiteError"
  /\ Get(classify_out).status = Some(429)

\* C21 (as stated): each connection is created only by the first request of
\* its execution model, so no execution model ever gets a second connection.
C21_CreatedOnlyByFirstRequest ==
  \A i, j \in DOMAIN made : made[i].mode = made[j].mode => i = j

Ids(m) == {i \in DOMAIN made : made[i].mode = m}
ConnState == <<_sync_client, _async_client, closed, made>>

\* A connection is created in this step, by caller c for execution model m.
Creates(c, m) ==
  /\ made' = Append(made, Conn(m))
  /\ mode'[c] = m
  /\ closed' = closed
  /\ IF m = "sync"
       THEN /\ _sync_client' = Some(Len(made) + 1)
            /\ _async_client' = _async_client
            /\ pc[c] = "creating"
       ELSE /\ _async_client' = Some(Len(made) + 1)
            /\ _sync_client' = _sync_client
            /\ pc[c] \in {"idle", "done", "sleep"} /\ Unusable(_async_client)

\* The step is a call of close() (name "close") or aclose() (name "aclose").
Called(name) == close_calls' = Append(close_calls, name)

\* C21 (amended): the two connections are independent. A connection is
\* created only by a request of its own execution model whose check found no
\* open connection of that model (the first request, or the first after a
\* close), and creating it leaves the other model's connection and every
\* closed flag alone; close() creates nothing, changes neither attribute and
\* closes at most the open blocking connection, aclose() likewise with the
\* cooperative one; a close with no open connection of its model (never
\* created, or closed already) changes nothing.
C21_ConnectionsIndependent ==
  [][ /\ made' # made => \E c \in Callers, m \in {"sync", "async"} : Creates(c, m)
      /\ \A c \in Callers :
            pc'[c] = "creating" /\ pc[c] # "creating" =>
              mode'[c] = "sync" /\ Unusable(_sync_client)
      /\ Called("close") =>
            /\ UNCHANGED <<_sync_client, _async_client, made>>
            /\ closed' = IF Unusable(_sync_client) THEN closed
                          ELSE closed \cup {Get(_sync_client)}
            /\ closed' \ closed \subseteq Ids("sync")
      /\ Called("aclose") =>
            /\ UNCHANGED <<_sync_client, _async_client, made>>
            /\ closed' = IF Unusable(_async_client) THEN closed
                          ELSE closed \cup {Get(_async_client)}
            /\ closed' \ closed \subseteq Ids("async")
      /\ (made' = made /\ close_calls' = close_calls) => UNCHANGED ConnState
    ]_vars

\* Both connections exist, close() was called twice, the blocking connection
\* is closed and the cooperative one is still open.
C21_Witness ==
  /\ close_calls = <<"close", "close">>
  /\ _sync_client # None /\ Get(_sync_client) \in closed
  /\ _async_client # None /\ Get(_async_client) \notin closed

\* The physical attempts of caller c, in order: the loop index of each.
Attempts(c) == [i \in DOMAIN sent[c] |-> sent[c][i].made_in]

\* What a finished logical request did and how it ended.
Outcome(c) ==
  [calls |-> calls[c], attempts |-> Attempts(c), waits |-> waits[c],
   result |-> result[c]]

\* C22: for the same configuration and the same sequence of server
\* responses a finished blocking request and a finished cooperative request
\* have made the same physical attempts in the same order, slept the same
\* waits in the same order and ended with the same result or the same error.
C22_SyncAsyncEquivalent ==
  \A c, d \in Callers :
    (pc[c] = "done" /\ pc[d] = "done" /\ mode[c] = "sync" /\ mode[d] = "async")
      => Outcome(c) = Outcome(d)

\* The scheme the requests of a client with signing strategy a carry.
SchemeOf(a) == IF a = "tba" THEN "OAuth" ELSE "Bearer"

\* C23: a configuration with neither or with both credential variants fails
\* at construction, so no client comes of it; a client that exists has
\* exactly one signing strategy, the one of the single variant configured,
\* and once it exists no step changes the strategy: every request it sends
\* is signed that way.
C23_ExactlyOneStrategy ==
  /\ [](build_in.tba = build_in.oauth2 =>
          /\ build_out \in {NotBuilt, BuildOut("error", "ValueError", "none")}
          /\ config.auth = "none"
          /\ started = 0)
  /\ [](build_out.stage = "client" =>
          /\ build_in.tba # build_in.oauth2
          /\ build_out.auth = (IF build_in.tba THEN "tba" ELSE "oauth2")
          /\ config.auth = build_out.auth
          /\ \A c \in Callers : \A i \in DOMAIN sent[c] :
                sent[c][i].scheme = SchemeOf(build_out.auth))
  /\ [](started > 0 => build_out.stage = "client")
  /\ [][build_out.stage = "client" =>
          build_out' = build_out /\ config' = config /\ build_in' = build_in]_vars

\* A client of each strategy has sent a request: one caller of a
\* certificate-flow client has its bearer request out.
C23_Witness ==
  /\ build_out = BuildOut("client", "", "oauth2")
  /\ \E c \in Callers : Len(sent[c]) >= 1 /\ pc[c] = "done"

\* C24: a setup with no credential variant or with both is reported as a
\* ConfigurationError, at construction, before any HTTP call is issued.
C24_SetupErrorIsConfigurationError ==
  (build_in.tba = build_in.oauth2 /\ build_out.stage = "error") =>
    /\ build_out.error = "ConfigurationError"
    /\ \A c \in Callers : calls[c] = 0

SameUrl(r1, r2) == r1.path = r2.path /\ r1.query = r2.query

\* C25: with nonce and timestamp fixed, two requests with the same method
\* and URL get the same Authorization header, whatever their bodies; two
\* requests that differ only in the body get the same signature.
C25_SigningDeterministicBodyFree ==
  sign_out # None =>
    ((sign_in.a.method = sign_in.b.method /\ SameUrl(sign_in.a, sign_in.b)) =>
       /\ Get(sign_out).a.header = Get(sign_out).b.header
       /\ Get(sign_out).a.signature = Get(sign_out).b.signature)

\* Two requests with a query string that differ in the body only were signed.
C25_Witness ==
  /\ sign_out # None
  /\ sign_in.a.method = sign_in.b.method /\ SameUrl(sign_in.a, sign_in.b)
  /\ sign_in.a.body # sign_in.b.body
  /\ Len(sign_in.a.query) = 2

Range(f) == {f[i] : i \in DOMAIN f}

\* C26: with nonce, timestamp and credentials fixed, two requests whose URLs
\* differ in path or in query string get different base strings and
\* different signatures, and every query parameter of a request is in the
\* sorted parameter string that is signed.
C26_UrlChangesSignature ==
  sign_out # None =>
    /\ ~SameUrl(sign_in.a, sign_in.b) =>
         /\ Get(sign_out).a.base # Get(sign_out).b.base
         /\ Get(sign_out).a.signature # Get(sign_out).b.signature
    /\ Range(sign_in.a.query) \subseteq Range(Get(sign_out).a.base[3])

\* What is removed from the end of u to give v is slashes only.
StrippedOf(u, v) ==
  /\ Len(v) <= Len(u)
  /\ v = SubSeq(u, 1, Len(v))
  /\ \A i \in (Len(v) + 1)..Len(u) : u[i] = "/"
  /\ v = <<>> \/ v[Len(v)] # "/"

\* The account id in lower case with hyphens for underscores.
Normalised(acct, n) ==
  /\ Len(n) = Len(acct)
  /\ \A i \in DOMAIN acct :
        n[i] = (CASE acct[i] = "A" -> "a" [] acct[i] = "_" -> "-" [] OTHER -> acct[i])

\* The URL is 'https://' + the normalised account id + the provider host.
ProviderUrl(acct, url) ==
  /\ Len(url) = Len(acct) + 2
  /\ url[1] = "https://"
  /\ Normalised(acct, SubSeq(url, 2, Len(acct) + 1))
  /\ url[Len(url)] = ".suitetalk.api.netsuite.com"

\* C27 (as stated): whenever an override is configured the base URL is the
\* override with its one trailing slash, if any, removed.
C27_OverrideMinusOneSlash ==
  (url_out # None /\ url_in.base_url # None) =>
    LET u == Get(url_in.base_url) IN
      Get(url_out).base =
        (IF u # <<>> /\ u[Len(u)] = "/" THEN SubSeq(u, 1, Len(u) - 1) ELSE u)

\* C27 (amended): with a non-empty override the base URL is the override
\* with all its trailing slashes removed and nothing else changed; with no
\* override, or an empty one, it is 'https://' + the account id in lower
\* case with every underscore replaced by a hyphen +
\* '.suitetalk.api.netsuite.com'. The token endpoint URL is that provider
\* URL of the account followed by the token path.
C27_BaseUrlComputed ==
  url_out # None =>
    /\ IF url_in.base_url # None /\ Get(url_in.base_url) # <<>>
         THEN StrippedOf(Get(url_in.base_url), Get(url_out).base)
         ELSE ProviderUrl(url_in.account_id, Get(url_out).base)
    /\ LET t == Get(url_out).token IN
         /\ t[Len(t)] = "/services/rest/auth/oauth2/v1/token"
         /\ ProviderUrl(url_in.account_id, SubSeq(t, 1, Len(t) - 1))

\* An account id with an upper-case letter and an underscore, no override.
C27_Witness ==
  /\ url_out # None
  /\ url_in.base_url = None
  /\ url_in.account_id = <<"A", "_">>
  /\ Get(url_out).base = <<"https://", "a", "-", ".suitetalk.api.netsuite.com">>

\* C28: in every attempt under the certificate flow the validity check is
\* followed by the token exchange exactly when the cached token is invalid
\* (absent, or now >= expiry - 60) and by the attach directly when it is
\* valid; a token exchange is sent from the check only, once, and its
\* response is stored, token first and then expiry = now + expires_in (3600
\* if absent), before the attach; the API request is sent from the attach
\* only and carries the Bearer scheme with the token in the cache at that
\* moment.
C28_RefreshBeforeRequest ==
  [][\A c \in Callers :
       /\ (pc[c] = "loop" /\ pc'[c] # "loop") =>
            IF access_token # None /\ now < expires_at - 60
              THEN pc'[c] = "attach" /\ UNCHANGED <<access_token, expires_at>>
              ELSE pc'[c] = "token_inflight"
       /\ (pc'[c] = "token_inflight" /\ pc[c] # "token_inflight") => pc[c] = "loop"
       /\ (pc[c] = "token_inflight" /\ pc'[c] # "token_inflight") =>
            \/ pc'[c] = "store" /\ tok_resp'[c].ok /\ access_token' = Some(issued')
                  /\ issued' = issued + 1
            \/ pc'[c] = "done" /\ result'[c].kind = "raise"
       /\ (pc[c] = "store" /\ pc'[c] # "store") =>
            /\ pc'[c] = "attach"
            /\ expires_at' = now + (IF tok_resp[c].expires_in = None THEN 3600
                                     ELSE Get(tok_resp[c].expires_in))
       /\ (pc'[c] = "attach" /\ pc[c] # "attach") => pc[c] \in {"loop", "store"}
       /\ (pc[c] = "attach" /\ pc'[c] # "attach") =>
            /\ pc'[c] = "inflight"
            /\ access_token # None
            /\ sent'[c] = Append(sent[c], Last(sent'[c]))
            /\ Last(sent'[c]).scheme = "Bearer"
            /\ Last(sent'[c]).token = access_token
       /\ (pc'[c] = "inflight" /\ pc[c] # "inflight") => pc[c] = "attach"
    ]_vars

\* One caller's API request is out after an exchange whose response had no
\* expires_in, another's after a check that found that token valid.
C28_Witness ==
  /\ issued = 1
  /\ expires_at >= 3600
  /\ \A c \in Callers :
        pc[c] = "inflight" /\ Last(sent[c]).token = access_token

\* The callers of execution model m whose token exchange is in flight.
Exchanging(m) == {c \in Callers : mode[c] = m /\ pc[c] = "token_inflight"}

\* Caller c is between its validity check and the end of _store_token.
Refreshing(c) == pc[c] \in {"token_inflight", "store"}

\* C29: at no time are two token exchanges of the blocking path in flight
\* together, nor two of the cooperative path; a caller takes the lock of its
\* execution model at the validity check that starts an exchange, holds it
\* until the exchanged token and expiry are stored (or the exchange has
\* failed) and no longer afterwards, and meanwhile no other caller of that
\* execution model passes its validity check.
C29_RefreshesSerialised ==
  /\ [](Cardinality(Exchanging("sync")) <= 1 /\ Cardinality(Exchanging("async")) <= 1)
  /\ [](\A c \in Callers : Refreshing(c) <=> Holds(c))
  /\ [][\A c, d \in Callers :
          (c # d /\ mode[c] = mode[d] /\ Refreshing(c)) =>
            ~(pc[d] = "loop" /\ pc'[d] # "loop")]_vars

\* A cooperative caller's exchange is in flight under the lock while another
\* cooperative caller stands before its validity check.
C29_Witness ==
  \E c, d \in Callers :
    /\ c # d /\ mode[c] = "async" /\ mode[d] = "async"
    /\ pc[c] = "token_inflight" /\ Holds(c)
    /\ pc[d] = "loop"

\* C30: within one logical request no wait precedes the first attempt, each
\* wait follows an attempt that is not the last permitted one and is
\* followed by the next attempt, and a finished request that made attempts
\* has waited one time less than it made attempts; the wait after zero-based
\* attempt a is factor * 2^a, with no cap, unless the response carried a
\* Retry-After header that parses (5 or -5 here).
C30_WaitsBetweenAttempts ==
  \A c \in Callers :
    /\ signs[c] = 0 => waits[c] = <<>>
    /\ pc[c] = "sleep" =>
         /\ Len(waits[c]) = signs[c]
         /\ signs[c] = attempt[c] + 1
         /\ attempt[c] < config.max_retries
         /\ response[c].retry_after \in {None, Some("soon")} =>
              Last(waits[c]) = config.retry_backoff_factor * (2 ^ attempt[c])
    /\ pc[c] # "sleep" => Len(waits[c]) = attempt[c]
    /\ (pc[c] = "done" /\ signs[c] >= 1) => Len(waits[c]) = signs[c] - 1
    /\ \A i \in DOMAIN waits[c] :
         waits[c][i] \in {5, -5, config.retry_backoff_factor * (2 ^ (i - 1))}

\* Three attempts with factor 2 and no hint: waits 2 and 4, then the error.
C30_Witness ==
  \E c \in Callers :
    /\ pc[c] = "done" /\ signs[c] = 3 /\ calls[c] = 3
    /\ config.retry_backoff_factor = 2
    /\ waits[c] = <<2, 4>>
    /\ result[c].kind = "raise"

TransportFailure == Raise(Foreign("TransportError"))

\* C31: a failure of the transport during a physical call ends the logical
\* request in that very step with the transport's error, on whichever
\* attempt it happens: no wait is added, no attempt follows, and the error
\* never becomes the remembered error of a retry; a wait begins only on the
\* receipt of a 429 or 5xx response.
C31_TransportFailureNotRetried ==
  /\ [](\A c \in Callers :
          /\ exc[c] # Foreign("TransportError")
          /\ last_exc[c] # Foreign("TransportError")
          /\ result[c] = TransportFailure =>
               /\ pc[c] = "done"
               /\ signs[c] = attempt[c] + 1
               /\ calls[c] \in {attempt[c], attempt[c] + 1}
               /\ Len(waits[c]) = attempt[c])
  /\ [][\A c \in Callers :
          /\ (result'[c] = TransportFailure /\ result[c] # TransportFailure) =>
               /\ pc[c] \in {"inflight", "token_inflight"}
               /\ pc'[c] = "done"
               /\ waits'[c] = waits[c] /\ attempt'[c] = attempt[c]
               /\ calls'[c] = calls[c] /\ signs'[c] = signs[c]
          /\ (pc[c] # "sleep" /\ pc'[c] = "sleep") =>
               /\ pc[c] = "inflight"
               /\ response'[c].status = 429 \/ response'[c].status >= 500]_vars

\* The transport fails on the third call of a request, after two waits.
C31_Witness ==
  \E c \in Callers :
    /\ result[c] = TransportFailure /\ pc[c] = "done"
    /\ attempt[c] = 2 /\ calls[c] = 3 /\ Len(waits[c]) = 2

\* C32: with max_retries >= 0 the loop is never left at its end: every
\* request ends by a return or a raise inside the loop body, and the error
\* 'Max retries exceeded' is never raised. The loop is left at its end only
\* with max_retries < 0, before any attempt: the request then fails with
\* 'Max retries exceeded', no physical call issued, nothing signed, no wait.
C32_FallbackOnlyForNegativeRetries ==
  \A c \in Callers :
    /\ pc[c] = "top" =>
         /\ config.max_retries < 0
         /\ attempt[c] = 0 /\ last_exc[c] = NoExc
    /\ result[c] = Raise(MaxRetriesExceeded) =>
         /\ config.max_retries < 0
         /\ calls[c] = 0 /\ signs[c] = 0 /\ sent[c] = <<>> /\ waits[c] = <<>>
    /\ (config.max_retries < 0 /\ pc[c] = "done") =>
         /\ result[c] = [kind |-> "raise", value |-> "", exc |-> MaxRetriesExceeded]
         /\ MaxRetriesExceeded.msg.text = "Max retries exceeded"
         /\ calls[c] = 0
    /\ (config.max_retries >= 0 /\ pc[c] = "done") => signs[c] >= 1

\* A request under max_retries = -1 has failed with the generic error.
C32_Witness ==
  \E c \in Callers :
    /\ config.max_retries = -1 /\ pc[c] = "done"
    /\ result[c] = Raise(MaxRetriesExceeded) /\ calls[c] = 0

\* The response in response[c] answers the call of the current attempt.
Answered(c) ==
  /\ pc[c] \in {"sleep", "done"}
  /\ response[c] # NoResp
  /\ calls[c] = attempt[c] + 1
  /\ result[c] # TransportFailure

\* C33: whether an attempt is followed by a wait and another attempt is
\* decided by the status of its response, the attempt index and max_retries
\* alone: it is retried exactly if the status is 429 or at least 500 and
\* the attempt is not the last permitted one, whatever the body, the
\* headers, the classified error or the execution model.
C33_RetryByStatusAndAttemptOnly ==
  \A c \in Callers :
    Answered(c) =>
      (pc[c] = "sleep" <=>
         /\ response[c].status = 429 \/ response[c].status >= 500
         /\ attempt[c] < config.max_retries)

\* The token exchange of caller c fails in this step.
ExchangeFails(c) == pc[c] = "token_inflight" /\ pc'[c] = "done"

\* C34: when a token exchange fails (the transport raises, or the response
\* carries no access_token) the cached token and expiry stay as they were,
\* no token is issued, the caller gives the lock of its execution model
\* back, the API request of that attempt is not sent, and the logical
\* request ends in that step with the failure, although a further attempt
\* was permitted; a request that failed so holds no lock, has sent nothing
\* on that attempt and has not waited.
C34_FailedExchangeLeavesCacheAndLock ==
  /\ [](\A c \in Callers :
          (pc[c] = "done" /\ result[c] = Raise(Foreign("KeyError"))) =>
             /\ ~Holds(c)
             /\ calls[c] = 0 /\ sent[c] = <<>> /\ waits[c] = <<>>
             /\ attempt[c] = 0 /\ signs[c] = 1)
  /\ [][\A c \in Callers :
          ExchangeFails(c) =>
             /\ access_token' = access_token /\ expires_at' = expires_at
             /\ issued' = issued
             /\ Holds(c) /\ LockFree(mode[c])'
             /\ calls'[c] = calls[c] /\ sent'[c] = sent[c]
             /\ calls[c] = attempt[c]
             /\ attempt[c] < config.max_retries /\ attempt'[c] = attempt[c]
             /\ waits'[c] = waits[c]
             /\ result'[c].kind = "raise"
             /\ result'[c].exc.cls \in {"KeyError", "TransportError"}]_vars

\* One caller's exchange has failed and a later request of the same
\* execution model has its own exchange in flight.
C34_Witness ==
  \E c, d \in Callers :
    /\ c # d /\ mode[c] = mode[d]
    /\ pc[c] = "done" /\ result[c] = Raise(Foreign("KeyError"))
    /\ pc[d] = "token_inflight" /\ Holds(d)
    /\ access_token = None

\* A request of c has been ended by a 401 response to its API call.
Refused(c) ==
  /\ pc[c] = "done" /\ calls[c] = attempt[c] + 1
  /\ response[c].status = 401 /\ result[c].kind = "raise"
  /\ result[c].exc.cls = "AuthenticationError"

\* The cached token is good for the validity check.
CacheValid == access_token # None /\ now < expires_at - 60

\* C35 as claimed: a 401 to an API request under the certificate flow is
\* not retried and leaves the token cache as it is, and from then on the
\* cache keeps its token, so that every later request attaches that token,
\* until the current time reaches expiry - 60.
C35_SameTokenAfter401 ==
  [][/\ \A c \in Callers :
          (pc[c] = "inflight" /\ response'[c].status = 401 /\ pc'[c] # "inflight") =>
             /\ pc'[c] = "done" /\ waits'[c] = waits[c]
             /\ UNCHANGED <<access_token, expires_at, issued>>
     /\ ((\E c \in Callers : Refused(c)) /\ CacheValid) =>
          UNCHANGED <<access_token, expires_at>>]_vars

\* C35 (amended): a 401 to an API request under the certificate flow ends
\* the request in that step with AuthenticationError, although a further
\* attempt was permitted, and leaves token, expiry and lock as they are.
\* The cache is changed only by a caller in its token exchange, and an
\* exchange is begun only by a validity check that finds no token or the
\* current time at or past expiry - 60; so while no exchange is under way
\* later requests attach the cached token until the current time reaches
\* expiry - 60. An exchange begun earlier by a caller of the other
\* execution model can still replace the token before that time.
C35_CacheChangedOnlyByExchange ==
  [][/\ \A c \in Callers :
          (pc[c] = "inflight" /\ response'[c].status = 401 /\ pc'[c] # "inflight") =>
             /\ pc'[c] = "done" /\ waits'[c] = waits[c]
             /\ attempt[c] < config.max_retries /\ attempt'[c] = attempt[c]
             /\ result'[c].exc.cls = "AuthenticationError"
             /\ UNCHANGED <<access_token, expires_at, issued, sync_lock, async_lock>>
     /\ <<access_token, expires_at>>' # <<access_token, expires_at>> =>
          \E c \in Callers :
            /\ pc[c] \in {"token_inflight", "store"} /\ Holds(c)
            /\ pc'[c] \in {"store", "attach"}
     /\ \A c \in Callers :
          (pc[c] = "loop" /\ pc'[c] = "token_inflight") =>
             access_token = None \/ now >= expires_at - 60
     /\ \A c \in Callers :
          (pc[c] = "loop" /\ pc'[c] = "attach") =>
             /\ access_token # None /\ now < expires_at - 60
             /\ UNCHANGED <<access_token, expires_at, issued>>
     /\ \A c \in Callers :
          (pc[c] = "attach" /\ pc'[c] = "inflight") =>
             Last(sent'[c]).token = access_token
     /\ (CacheValid /\ \A c \in Callers : pc[c] \notin {"token_inflight", "store"}) =>
          UNCHANGED <<access_token, expires_at>>]_vars

\* One request was refused with 401 and a later one is in flight with the
\* same token, the only one issued.
C35_Witness ==
  \E c, d \in Callers :
    /\ c # d /\ Refused(c) /\ pc[d] = "inflight"
    /\ issued = 1 /\ access_token = Some(1) /\ CacheValid
    /\ Last(sent[c]).token = Some(1) /\ Last(sent[d]).token = Some(1)
    /\ \A e \in Callers : pc[e] \notin {"token_inflight", "store"}

\* The i-th call of fetch_page raised: no page came back between it and
\* the next call, or it is the last call and fewer pages than calls exist.
FetchRaised(i) ==
  IF i < Len(requested) THEN requested[i + 1].nth = requested[i].nth
  ELSE Len(fetched) = requested[i].nth

\* C36: when fetch_page raises, the error goes through the page iterator,
\* which keeps its offset, its limit and its exhausted flag and the pages
\* it has yielded; the next request for a page calls fetch_page with the
\* same offset again, and the offsets requested after it go on as if the
\* failed call had not been made: none is skipped.
C36_FailedFetchKeepsOffset ==
  /\ [](\A i \in DOMAIN requested :
          /\ requested[i].limit = _limit
          /\ i < Len(requested) =>
               requested[i + 1].offset =
                 IF FetchRaised(i) THEN requested[i].offset
                 ELSE requested[i].offset + _limit
          /\ ~FetchRaised(i) => fetched[requested[i].nth + 1].has_more \/ i = Len(requested))
  /\ [](raised = Cardinality({i \in DOMAIN requested : FetchRaised(i)}))
  /\ [][raised' # raised =>
          /\ raised' = raised + 1
          /\ UNCHANGED <<_offset, _limit, _exhausted, yielded, fetched, stops, items_out>>
          /\ requested' = Append(requested, [limit |-> _limit, offset |-> _offset,
                                              nth |-> Len(fetched)])]_vars

\* A page iterator with limit 2: the second call of fetch_page raised, the
\* third asked for the same offset and its page was yielded.
C36_Witness ==
  /\ kind \in PageIterators /\ _limit = 2 /\ raised = 1
  /\ Len(requested) = 3 /\ Len(yielded) = 2
  /\ FetchRaised(2) /\ ~FetchRaised(1) /\ ~FetchRaised(3)
  /\ requested[1].offset = 0 /\ requested[2].offset = 2 /\ requested[3].offset = 2

\* An empty page that reports has_more = false.
EmptyLast(p) == p.items = <<>> /\ ~p.has_more

\* C37: the pages yielded are, in order, the pages fetched without those
\* that are empty and report has_more = false; only the last page fetched
\* can be such a page, so the number of pages yielded is the number of
\* pages fetched, or one less when the last page fetched is empty and
\* final. An empty page with has_more = true is yielded, leaves the
\* iterator unexhausted and moves the offset on by the limit like any other.
C37_OnlyEmptyFinalPageDropped ==
  /\ yielded = SelectSeq(fetched, LAMBDA p : ~(p.items = <<>> /\ p.has_more = FALSE))
  /\ \A i \in DOMAIN fetched : EmptyLast(fetched[i]) => i = Len(fetched)
  /\ Len(yielded) =
       IF fetched # <<>> /\ EmptyLast(Last(fetched)) THEN Len(fetched) - 1
       ELSE Len(fetched)
  /\ _offset = (IF offset_arg = None THEN 0 ELSE Get(offset_arg))
                 + _limit * Cardinality({i \in DOMAIN fetched : fetched[i].has_more})
  /\ _exhausted <=> (fetched # <<>> /\ ~Last(fetched).has_more)
  /\ (fetched # <<>> /\ Last(fetched).items = <<>> /\ Last(fetched).has_more) =>
       Last(yielded) = Last(fetched)

\* Limit 2: a page of items, an empty page with has_more = true, an empty
\* final page: two pages yielded out of three fetched, offsets 0, 2, 4.
C37_Witness ==
  /\ _limit = 2 /\ offset_arg = None /\ Len(fetched) = 3 /\ raised = 0
  /\ fetched[1].items # <<>> /\ fetched[1].has_more
  /\ fetched[2].items = <<>> /\ fetched[2].has_more
  /\ EmptyLast(fetched[3])
  /\ yielded = <<fetched[1], fetched[2]>>
  /\ requested[3].offset = 4 /\ _exhausted


\* C38: no physical call is issued on a closed connection. In any sequence of
\* requests and closes, a caller at its attempt or with its call in flight
\* holds the current, open connection of its own execution model; a request
\* that finds the connection of its model closed creates a fresh one; every
\* finished request has an answer of the server and none failed with the
\* RuntimeError of a closed connection; and after any number of closes the
\* next request can still start.
OnOpenConnection(c) ==
  /\ conn[c] \in DOMAIN made
  /\ conn[c] \notin closed
  /\ made[conn[c]].mode = mode[c]
  /\ ClientOf(mode[c]) = Some(conn[c])

C38_ClosedConnectionNeverUsed ==
  /\ [](\A c \in Callers :
          /\ pc[c] \in {"loop", "inflight"} => OnOpenConnection(c)
          /\ result[c] # Raise(Foreign("RuntimeError"))
          /\ pc[c] = "done" =>
               /\ response[c].status \in {200, 401}
               /\ response[c].status = 200 => result[c] = Return("body")
               /\ response[c].status = 401 =>
                    /\ result[c].kind = "raise"
                    /\ result[c].exc.cls = "AuthenticationError"
                    /\ result[c].exc.status = Some(401))
  /\ [](Quiet /\ started < MaxRequests => ENABLED (\E c \in Callers : SeqStart(c)))
  /\ [][ \A c \in Callers :
           /\ calls'[c] = calls[c] + 1 => OnOpenConnection(c) /\ pc'[c] = "inflight"
           /\ ( /\ pc[c] \in {"idle", "done"} /\ pc'[c] \notin {"idle", "done"}
                /\ ClientOf(mode'[c]) # None
                /\ Get(ClientOf(mode'[c])) \in closed ) =>
                IF mode'[c] = "async"
                  THEN /\ made' = Append(made, [mode |-> "async"])
                       /\ _async_client' = Some(Len(made'))
                       /\ conn'[c] = Len(made')
                       /\ pc'[c] = "loop"
                  ELSE pc'[c] = "creating"
           /\ pc[c] = "creating" /\ pc'[c] # "creating" =>
                /\ made' = Append(made, [mode |-> "sync"])
                /\ _sync_client' = Some(Len(made'))
                /\ pc'[c] = "returning"
       ]_vars

C38_Witness ==
  /\ close_calls = <<"aclose">>
  /\ made = <<[mode |-> "async"], [mode |-> "async"]>>
  /\ closed = {1}
  /\ _async_client = Some(2)
  /\ started = 2
  /\ \E c \in Callers :
       /\ pc[c] = "done"
       /\ mode[c] = "async"
       /\ calls[c] >= 1
       /\ result[c] = Return("body")


\* C39: every logical request terminates. When each physical call ends and
\* each backoff wait ends, a request that has started reaches its end with a
\* value returned or an error raised; it is in an attempt only at an index
\* in 0..max_retries, so it makes at most max_retries + 1 attempts and at
\* most max_retries waits, also when every response is a 429 or a 5xx.
InRequest(c) == pc[c] \notin {"idle", "done"}

C39_RequestTerminates ==
  /\ \A c \in Solo :
       InRequest(c) ~> (pc[c] = "done" /\ result[c].kind \in {"return", "raise"})
  /\ [](\A c \in Solo :
          /\ InRequest(c) /\ pc[c] # "top" =>
               attempt[c] >= 0 /\ attempt[c] + 1 <= config.max_retries + 1
          /\ pc[c] # "idle" =>
               /\ attempt[c] <= (IF config.max_retries < 0 THEN 0 ELSE config.max_retries + 1)
               /\ Len(waits[c]) <= (IF config.max_retries < 0 THEN 0 ELSE config.max_retries)
               /\ Len(waits[c]) = (IF pc[c] = "sleep" THEN attempt[c] + 1 ELSE attempt[c]))

C39_Witness ==
  \E c \in Solo :
    /\ pc[c] = "done"
    /\ config.max_retries = MaxRetries
    /\ attempt[c] = MaxRetries
    /\ Len(waits[c]) = MaxRetries
    /\ calls[c] = MaxRetries + 1
    /\ response[c].status = 500
    /\ result[c].kind = "raise"
    /\ result[c].exc.cls = "ServerError"

====
